---------------------------- MODULE Spec2Model ----------------------------
(***************************************************************************)
(* A model of the carb estimator (src/app/page.tsx): the CarbEstimator     *)
(* component's state and handlers, the response normalization of           *)
(* analyzeImage and the heuristic extraction of generateEstimatedCarbData. *)
(*                                                                         *)
(* Texts are TLA+ strings and are read character by character, as the      *)
(* regular expressions and JSON.parse of the source read them.             *)
(***************************************************************************)
EXTENDS Integers, Sequences, FiniteSets, TLC

(***************************************************************************)
(* JavaScript values.  A value is a record with a tag and one payload      *)
(* field per kind, the other fields at their defaults:                     *)
(*   kind "null"                                                           *)
(*   kind "bool"    bool   the boolean                                     *)
(*   kind "num"     num    a number that is an integer of at most nine     *)
(*                         digits                                          *)
(*   kind "real"    str    any other number (a double), as String() writes *)
(*                         it                                              *)
(*   kind "str"     str    the string                                      *)
(*   kind "arr"     items  the sequence of its elements                    *)
(*   kind "obj"     props  the function from its keys to their values      *)
(*   kind "arr+foodItems": an array with an own property foodItems = []    *)
(***************************************************************************)
JNull == [kind |-> "null", bool |-> FALSE, num |-> 0, str |-> "", items |-> <<>>, props |-> <<>>]

JBool(b) == [JNull EXCEPT !.kind = "bool", !.bool = b]

JNum(n) == [JNull EXCEPT !.kind = "num", !.num = n]

JReal(lexeme) == [JNull EXCEPT !.kind = "real", !.str = lexeme]

JStr(s) == [JNull EXCEPT !.kind = "str", !.str = s]

JArr(items) == [JNull EXCEPT !.kind = "arr", !.items = items]

JObj(props) == [JNull EXCEPT !.kind = "obj", !.props = props]

\* JavaScript truthiness (ToBoolean) of a value.  Every zero is the "num" 0
\* (NumberValue), so a "real" is never zero.
Truthy(x) ==
    CASE x.kind = "null" -> FALSE
      [] x.kind = "bool" -> x.bool
      [] x.kind = "num" -> x.num # 0
      [] x.kind = "str" -> x.str # ""
      [] OTHER -> TRUE

HasKey(x, k) == x.kind = "obj" /\ k \in DOMAIN x.props

(***************************************************************************)
(* Characters                                                              *)
(***************************************************************************)
\* s[i] as a one-character string, "" outside the string.
Ch(s, i) == IF 1 <= i /\ i <= Len(s) THEN SubSeq(s, i, i) ELSE ""

Digits == {"0", "1", "2", "3", "4", "5", "6", "7", "8", "9"}

UpperChars == "ABCDEFGHIJKLMNOPQRSTUVWXYZ"

LowerChars == "abcdefghijklmnopqrstuvwxyz"

AlphaIdx == 1..26

UpperSet == {Ch(UpperChars, k) : k \in AlphaIdx}

LowerSet == {Ch(LowerChars, k) : k \in AlphaIdx}

IsUpper(c) == c \in UpperSet

IsLower(c) == c \in LowerSet

\* Case folding of the regular expressions' i flag.
Lower(c) ==
    IF IsUpper(c)
    THEN Ch(LowerChars, CHOOSE k \in AlphaIdx : Ch(UpperChars, k) = c)
    ELSE c

\* \d
IsDigit(c) == c \in Digits

\* \w
IsWord(c) == IsUpper(c) \/ IsLower(c) \/ IsDigit(c) \/ c = "_"

\* WhiteSpace and LineTerminator of ECMAScript, the characters of \s and the
\* ones String.prototype.trim strips: space, tab, line feed, carriage return,
\* form feed, vertical tab (U+000B), no-break space (U+00A0), ogham space
\* mark (U+1680) and byte order mark (U+FEFF).  The others (U+2000-U+200A,
\* U+2028, U+2029, U+202F, U+205F, U+3000) cannot be written in a string of
\* this language: the ogham space mark stands for them (CharOfCode).
WhiteSpace == {" ", "\t", "\n", "\r", "\f", "", " ", " ", "﻿"}

\* \s
IsSpace(c) == c \in WhiteSpace

DigitVal(c) == CHOOSE d \in 0..9 : ToString(d) = c

\* The value of a run of at most nine decimal digits.
RECURSIVE IntOfDigits(_)
IntOfDigits(ds) ==
    IF Len(ds) = 0 THEN 0
    ELSE 10 * IntOfDigits(SubSeq(ds, 1, Len(ds) - 1)) + DigitVal(Ch(ds, Len(ds)))

\* The position after the longest run of \s from i.
RECURSIVE SkipSpaces(_, _)
SkipSpaces(s, i) == IF IsSpace(Ch(s, i)) THEN SkipSpaces(s, i + 1) ELSE i

\* The position after the longest run of \d from i.
RECURSIVE SkipDigits(_, _)
SkipDigits(s, i) == IF IsDigit(Ch(s, i)) THEN SkipDigits(s, i + 1) ELSE i

\* The literal lit (given in lower case) at position i, ignoring case.
LitAt(s, i, lit) ==
    /\ i + Len(lit) - 1 <= Len(s)
    /\ \A k \in 1..Len(lit) : Lower(Ch(s, i + k - 1)) = Ch(lit, k)

\* String.prototype.trim
RECURSIVE Trim(_)
Trim(s) ==
    IF Len(s) = 0 THEN s
    ELSE IF IsSpace(Ch(s, 1)) THEN Trim(SubSeq(s, 2, Len(s)))
    ELSE IF IsSpace(Ch(s, Len(s))) THEN Trim(SubSeq(s, 1, Len(s) - 1))
    ELSE s

(***************************************************************************)
(* Numbers.  A JavaScript number is a double: Number.parseInt and          *)
(* JSON.parse give the double nearest to the decimal they read, + rounds   *)
(* its sum to the nearest double, and String() writes the shortest digits  *)
(* that read back as the double.  Decimals are digit strings here, and the *)
(* arithmetic on them is done on their limbs of four digits.               *)
(***************************************************************************)
Later(a, b) == IF a > b THEN a ELSE b

Least(ps) == CHOOSE p \in ps : \A r \in ps : p <= r

Greatest(ps) == CHOOSE p \in ps : \A r \in ps : r <= p

Twice(str) == str \o str

\* n zeros.
RECURSIVE Zeros(_)
Zeros(n) ==
    IF n <= 0 THEN ""
    ELSE IF n % 2 = 1 THEN "0" \o Zeros(n - 1)
    ELSE Twice(Zeros(n \div 2))

\* ds without its leading zeros.
StripLeadingZeros(ds) ==
    SubSeq(ds, Least({k \in 1..(Len(ds) + 1) : Ch(ds, k) # "0"}), Len(ds))

\* ds without its trailing zeros.
StripTrailingZeros(ds) ==
    SubSeq(ds, 1, Greatest({k \in 0..Len(ds) : Ch(ds, k) # "0"}))

\* A natural number as its limbs of four decimal digits, the least first.
Base == 10 ^ 4

BigOfDigits(ds) ==
    [i \in 1..((Len(ds) + 3) \div 4) |->
        IntOfDigits(SubSeq(ds, Later(1, Len(ds) - 4 * i + 1), Len(ds) - 4 * i + 4))]

Pad4(str) == Zeros(4 - Len(str)) \o str

RECURSIVE DigitsRange(_, _, _)
DigitsRange(a, lo, hi) ==
    IF lo > hi THEN ""
    ELSE IF lo = hi THEN Pad4(ToString(a[lo]))
    ELSE DigitsRange(a, (lo + hi) \div 2 + 1, hi) \o DigitsRange(a, lo, (lo + hi) \div 2)

\* The decimal digits of a number given by its limbs, "" for 0.
DigitsOfBig(a) == StripLeadingZeros(DigitsRange(a, 1, Len(a)))

\* The limbs lo..hi of raw brought below Base, the carry cin added to the
\* first of them and the carry cout left over.
RECURSIVE CarryRange(_, _, _, _)
CarryJoin(low, high) == [limbs |-> low.limbs \o high.limbs, cout |-> high.cout]

CarryAfter(raw, mid, hi, low) == CarryJoin(low, CarryRange(raw, mid + 1, hi, low.cout))

CarryRange(raw, lo, hi, cin) ==
    IF lo = hi
    THEN [limbs |-> <<(raw[lo] + cin) % Base>>, cout |-> (raw[lo] + cin) \div Base]
    ELSE CarryAfter(raw, (lo + hi) \div 2, hi, CarryRange(raw, lo, (lo + hi) \div 2, cin))

RECURSIVE TrimTop(_)
TrimTop(a) ==
    IF Len(a) > 0 /\ a[Len(a)] = 0 THEN TrimTop(SubSeq(a, 1, Len(a) - 1)) ELSE a

\* The number of the limbs raw, which may be Base and more.
Carried(raw) ==
    IF Len(raw) = 0 THEN raw
    ELSE TrimTop(CarryRange(raw \o <<0, 0>>, 1, Len(raw) + 2, 0).limbs)

\* a * c^t, for c up to 2^17.
RECURSIVE Times(_, _, _)
Times(a, c, t) ==
    IF t = 0 \/ Len(a) = 0 THEN a
    ELSE Times(Carried([i \in 1..Len(a) |-> a[i] * c]), c, t - 1)

MulSmall(a, c) == Times(a, c, 1)

\* a * 2^e, for e < 0 without the point that is then -e places from the end:
\* a * 5^-e
PowerStep(e) == IF e >= 0 THEN [c |-> 2, per |-> 17] ELSE [c |-> 5, per |-> 7]

ScaleBy(a, k, step) ==
    Times(Times(a, step.c ^ (k % step.per), 1), step.c ^ step.per, k \div step.per)

ScaleBinary(a, e) == ScaleBy(a, IF e >= 0 THEN e ELSE 0 - e, PowerStep(e))

\* a + b on digit strings.
LimbOf(a, i) == IF i <= Len(a) THEN a[i] ELSE 0

AddBig(a, b) == Carried([i \in 1..Later(Len(a), Len(b)) |-> LimbOf(a, i) + LimbOf(b, i)])

AddDigits(a, b) == DigitsOfBig(AddBig(BigOfDigits(a), BigOfDigits(b)))

\* The first position where two digit strings of one length differ, one
\* beyond them when they are equal.
FirstDiff(a, b) == Least({k \in 1..(Len(a) + 1) : k > Len(a) \/ Ch(a, k) # Ch(b, k)})

NotLessAt(a, b, k) == k > Len(a) \/ DigitVal(Ch(a, k)) > DigitVal(Ch(b, k))

\* a >= b on digit strings without leading zeros.
AtLeast(a, b) ==
    \/ Len(a) > Len(b)
    \/ Len(a) = Len(b) /\ NotLessAt(a, b, FirstDiff(a, b))

\* ds + 1, and ds - 1 for ds > 0, on a digit string: ds - 1 keeps the length.
IncAt(ds, k) ==
    IF k = 0 THEN "1" \o Zeros(Len(ds))
    ELSE SubSeq(ds, 1, k - 1) \o ToString(DigitVal(Ch(ds, k)) + 1) \o Zeros(Len(ds) - k)

Inc(ds) == IncAt(ds, Greatest({k \in 0..Len(ds) : Ch(ds, k) # "9"}))

Nines == "99999999999999999999"

DecAt(ds, k) ==
    SubSeq(ds, 1, k - 1) \o ToString(DigitVal(Ch(ds, k)) - 1) \o SubSeq(Nines, 1, Len(ds) - k)

Dec(ds) == DecAt(ds, Greatest({k \in 1..Len(ds) : Ch(ds, k) # "0"}))

Odd(ds) == Ch(ds, Len(ds)) \in {"1", "3", "5", "7", "9"}

\* The digits before and after the decimal point of zs * 10^sh.
IntPart(zs, sh) ==
    IF sh >= 0 THEN zs \o Zeros(sh) ELSE SubSeq(zs, 1, Len(zs) + sh)

FracPart(zs, sh) ==
    IF sh >= 0 THEN ""
    ELSE Zeros(0 - sh - Len(zs)) \o SubSeq(zs, Later(1, Len(zs) + sh + 1), Len(zs))

\* 2^53 to 2^58, and 2^52.
PowersOfTwo ==
    <<"9007199254740992", "18014398509481984", "36028797018963968",
      "72057594037927936", "144115188075855872", "288230376151711744">>

TwoTo52 == "4503599627370496"

\* A double is mant * 2^exp with 2^52 <= mant < 2^53 and exp from MinExponent
\* to MaxExponent, or with mant < 2^52 and exp = MinExponent (a subnormal).
MinExponent == 0 - 1074

MaxExponent == 1023 - 52

\* A lower bound of floor(m * log2(10)), at most 1 below it.
LogFloor(m) ==
    IF m >= 0 THEN (m * 3321928) \div 1000000
    ELSE 0 - (((0 - m) * 3321929 + 999999) \div 1000000)

NoDouble == [class |-> "zero", mant |-> "", exp |-> 0]

InRange(mant, exp) ==
    IF exp > MaxExponent THEN [NoDouble EXCEPT !.class = "inf"]
    ELSE [class |-> "finite", mant |-> mant, exp |-> exp]

\* The double of the integer digits mant and the exponent exp, mant <= 2^53.
Finite(mant, exp) ==
    IF mant = "" THEN NoDouble
    ELSE IF mant = PowersOfTwo[1] THEN InRange(TwoTo52, exp + 1)
    ELSE InRange(mant, exp)

\* Round to nearest, ties to even: int and frac are the digits before and
\* after the point of the quotient by 2^exp.
RoundUp(int, frac) ==
    \/ Ch(frac, 1) \in {"6", "7", "8", "9"}
    \/ /\ Ch(frac, 1) = "5"
       /\ \/ \E k \in 2..Len(frac) : Ch(frac, k) # "0"
          \/ Odd(int)

Rounded(int, frac, exp) ==
    Finite(IF RoundUp(int, frac) THEN Inc(IF int = "" THEN "0" ELSE int) ELSE int, exp)

RoundedAt(zs, sh, exp) == Rounded(IntPart(zs, sh), FracPart(zs, sh), exp)

\* How many of 2^53 .. 2^58 the integer digits reach: the bits that the
\* quotient has beyond 53.
ExtraBits(int) == Cardinality({j \in 1..6 : AtLeast(int, PowersOfTwo[j])})

\* x * 10^sh is the quotient by 2^e0; the one by 2^(e0 + s) is rounded.
Narrowed(x, sh, e0, s) == RoundedAt(DigitsOfBig(Times(x, 5 ^ s, 1)), sh - s, e0 + s)

Quotient(x, sh, e0) == Narrowed(x, sh, e0, ExtraBits(IntPart(DigitsOfBig(x), sh)))

\* ds * 10^q divided by 2^e0: times 2^-e0, or times 5^e0 with the point
\* moved by e0 places.
Scaled(ds, q, e0) ==
    Quotient(ScaleBinary(BigOfDigits(ds), 0 - e0), IF e0 < 0 THEN q ELSE q - e0, e0)

\* The double nearest to 0.ds * 10^n, ds not empty and without leading zeros.
DoubleOf(ds, n) ==
    IF n <= 0 - 324 THEN NoDouble
    ELSE IF n >= 310 THEN [NoDouble EXCEPT !.class = "inf"]
    ELSE Scaled(ds, n - Len(ds), Later(LogFloor(n - 1) - 52, MinExponent))

AddSmall(a, k) == IF Len(a) = 0 THEN <<k>> ELSE [a EXCEPT ![1] = @ + k]

PadTo(ds, len) == Zeros(len - Len(ds)) \o ds

RestZero(ds, p) == \A k \in (p + 1)..Len(ds) : Ch(ds, k) = "0"

\* The decimals that read back as the double d lie between lo and hi, the
\* middles between d and its neighbours, which belong to them (incl) when
\* the mantissa is even.  d cut after p digits fits, or that plus one in the
\* last place does.
FloorFits(lo, d, incl, p) ==
    \/ SubSeq(d, 1, p) # SubSeq(lo, 1, p)
    \/ incl /\ RestZero(lo, p)

CeilFitsBelow(up, hi, incl, p) ==
    incl \/ ~(up = SubSeq(hi, 1, p) /\ RestZero(hi, p))

CeilFits(d, hi, incl, p) ==
    /\ SubSeq(d, 1, p) # SubSeq(hi, 1, p)
    /\ CeilFitsBelow(Inc(SubSeq(d, 1, p)), hi, incl, p)

CeilNearer(d, p) ==
    \/ Ch(d, p + 1) \in {"6", "7", "8", "9"}
    \/ /\ Ch(d, p + 1) = "5"
       /\ ~RestZero(d, p + 1) \/ Odd(SubSeq(d, 1, p))

\* The digits chosen, given the ones of d cut after p digits (down) and those
\* plus one in the last place (up).
Pick(down, up, lo, d, hi, incl, p) ==
    IF /\ down # SubSeq(hi, 1, p)
       /\ CeilFitsBelow(up, hi, incl, p)
       /\ ~FloorFits(lo, d, incl, p) \/ CeilNearer(d, p)
    THEN up
    ELSE down

Chosen(lo, d, hi, incl, p) == Pick(SubSeq(d, 1, p), Inc(SubSeq(d, 1, p)), lo, d, hi, incl, p)

\* The digits cp without leading zeros, rest places before the end of
\* strings that have t places after the point, as 0.digits * 10^n.
ShortestAt(cp, rest, t) ==
    [digits |-> StripTrailingZeros(cp), n |-> Len(cp) + rest - t]

CutAt(lo, d, hi, incl, t, p) ==
    ShortestAt(StripLeadingZeros(Chosen(lo, d, hi, incl, p)), Len(hi) - p, t)

\* The fewest digits that fit; seventeen always do.
Between(lo, d, hi, incl, t) ==
    CutAt(lo, d, hi, incl, t,
          Least({k \in 1..Len(hi) : \/ k >= 19 \/ k = Len(hi)
                                    \/ FloorFits(lo, d, incl, k)
                                    \/ CeilFits(d, hi, incl, k)}))

Aligned(m, incl, t) ==
    Between(PadTo(m[1], Len(m[3])), PadTo(m[2], Len(m[3])), m[3], incl, t)

\* In units of 2^(exp - 2), the double mant * 2^exp is 4 mant (i = 2), the
\* middle above it 4 mant + 2 (i = 3), and the middle below it 4 mant - 2, or
\* 4 mant - 1 when the double below is half as far away (i = 1).
MarkOffset(mant, exp, i) ==
    CASE i = 1 -> IF mant = TwoTo52 /\ exp > MinExponent THEN 3 ELSE 2
      [] i = 2 -> 0
      [] i = 3 -> 2

Mark(mant, exp, i) ==
    AddSmall(Times(BigOfDigits(IF i = 1 THEN Dec(mant) ELSE mant), 4, 1),
             MarkOffset(mant, exp, i))

Marks(mant, exp) ==
    [i \in 1..3 |-> DigitsOfBig(ScaleBinary(Mark(mant, exp, i), exp - 2))]

\* The shortest digits that read back as the double mant * 2^exp, the ones
\* nearest to it when several do (Number::toString, step 5).
Shortest(mant, exp) ==
    Aligned(Marks(mant, exp), ~Odd(mant), IF exp >= 2 THEN 0 ELSE 2 - exp)

ShortestOf(dbl) ==
    IF dbl.class = "finite" THEN Shortest(dbl.mant, dbl.exp)
    ELSE [digits |-> dbl.class, n |-> 0]

\* The digits and the exponent that String() writes for the double nearest
\* to 0.ds * 10^n, ds without leading and trailing zeros: digits "zero" for
\* 0 and "inf" for Infinity.  A decimal of at most 15 digits that is not
\* near the ends of the doubles' range is the shortest one of its double.
Canonical(ds, n) ==
    IF ds = "" THEN [digits |-> "zero", n |-> 0]
    ELSE IF Len(ds) <= 15 /\ 0 - 306 <= n /\ n <= 308 THEN [digits |-> ds, n |-> n]
    ELSE ShortestOf(DoubleOf(ds, n))

\* Number::toString of the positive number 0.ds * 10^n, ds its shortest
\* digits: plain digits up to 10^21, a decimal fraction down to 10^-6, and
\* the exponential notation beyond.
Notation(ds, n) ==
    IF Len(ds) <= n /\ n <= 21 THEN ds \o Zeros(n - Len(ds))
    ELSE IF 0 < n /\ n <= 21 THEN SubSeq(ds, 1, n) \o "." \o SubSeq(ds, n + 1, Len(ds))
    ELSE IF 0 - 6 < n /\ n <= 0 THEN "0." \o Zeros(0 - n) \o ds
    ELSE Ch(ds, 1) \o (IF Len(ds) > 1 THEN "." \o SubSeq(ds, 2, Len(ds)) ELSE "")
             \o (IF n > 0 THEN "e+" \o ToString(n - 1) ELSE "e-" \o ToString(1 - n))

Written(c) ==
    CASE c.digits = "zero" -> "0"
      [] c.digits = "inf" -> "Infinity"
      [] OTHER -> Notation(c.digits, c.n)

\* String(x) of the number x = 0.ds * 10^n, ds without leading zeros.
NumberToString(ds, n) == Written(Canonical(StripTrailingZeros(ds), n))

\* The sign written before a number.
Signed(neg, str) == IF neg THEN "-" \o str ELSE str

SignedInt(neg, k) == IF neg THEN 0 - k ELSE k

\* The value of the number that is written with the digits c.
ValueOf(neg, c) ==
    IF c.digits = "zero" THEN JNum(0)
    ELSE IF c.digits # "inf" /\ Len(c.digits) <= c.n /\ c.n <= 9
    THEN JNum(SignedInt(neg, IntOfDigits(c.digits \o Zeros(c.n - Len(c.digits)))))
    ELSE JReal(Signed(neg, Written(c)))

\* The number (-)0.digits * 10^n, digits without leading zeros, as a value:
\* the double nearest to it, 0 and Infinity among them.
NumberOf(neg, digits, n) == ValueOf(neg, Canonical(StripTrailingZeros(digits), n))

\* The number of the digits ds of an integer, ds without leading zeros.
WholeNumber(ds) == NumberOf(FALSE, ds, Len(ds))

\* Number.parseInt of a non-empty run of decimal digits.
ParseInt(ds) == WholeNumber(StripLeadingZeros(ds))

\* The digits and the exponent of an integer from 10^9 on as String() has
\* written it: digits, or d.ddde+NN from 10^21 on.
DecimalFrom(str, dot, epos) ==
    [digits |-> SubSeq(str, 1, dot - 1) \o SubSeq(str, dot + 1, epos - 1),
     n |-> dot - 1 + IntOfDigits(SubSeq(str, epos + 2, Len(str)))]

DecimalUpTo(str, epos) ==
    DecimalFrom(str, Least({k \in 1..epos : k = epos \/ Ch(str, k) = "."}), epos)

DecimalOf(str) ==
    DecimalUpTo(str, Least({k \in 1..(Len(str) + 1) : Ch(str, k) \in {"e", ""}}))

\* The digits of the exact value of a double that is an integer.
IntegerDigits(d, dbl) ==
    IF dbl.exp >= 0 THEN DigitsOfBig(ScaleBinary(BigOfDigits(dbl.mant), dbl.exp))
    ELSE d.digits \o Zeros(d.n - Len(d.digits))

ExactDigits(d) == IntegerDigits(d, DoubleOf(d.digits, d.n))

ExactInteger(x) ==
    IF x.kind = "num" THEN ToString(x.num) ELSE ExactDigits(DecimalOf(x.str))

Operands(x, y) == [i \in 1..2 |-> ExactInteger(IF i = 1 THEN x ELSE y)]

SumOf(ops) == WholeNumber(AddDigits(ops[1], ops[2]))

\* x + y for two numbers that Number.parseInt gave or that are written in
\* the source: integers from 0 on, or Infinity.
Plus(x, y) ==
    IF x.kind = "num" /\ y.kind = "num" /\ x.num + y.num < 1000000000
    THEN JNum(x.num + y.num)
    ELSE IF x = JReal("Infinity") \/ y = JReal("Infinity") THEN JReal("Infinity")
    ELSE SumOf(Operands(x, y))

\* xs[1] + xs[2] + ..., from the left.
RECURSIVE Sum(_)
Sum(xs) ==
    IF Len(xs) = 1 THEN xs[1]
    ELSE Sum(<<Plus(xs[1], xs[2])>> \o SubSeq(xs, 3, Len(xs)))

(***************************************************************************)
(* Regular-expression steps.  A cursor is a position in the text, 0 once   *)
(* the match has failed.  None of the expressions below backtracks into a  *)
(* different match: after \d+ and \s* the next token is never a digit or a *)
(* space, and after (rams)? and (of)? it never starts with r or o.         *)
(***************************************************************************)
\* \s*
Spaces(s, i) == IF i = 0 THEN 0 ELSE SkipSpaces(s, i)

\* \d+
Number(s, i) == IF i # 0 /\ IsDigit(Ch(s, i)) THEN SkipDigits(s, i) ELSE 0

\* A literal, ignoring case.
Lit(s, i, lit) == IF i # 0 /\ LitAt(s, i, lit) THEN i + Len(lit) ELSE 0

\* (lit)?
Opt(s, i, lit) == IF i # 0 /\ LitAt(s, i, lit) THEN i + Len(lit) ELSE i

\* (a|b), given the cursors after a and after b.
Alt(a, b) == IF a # 0 THEN a ELSE b

(***************************************************************************)
(* generateEstimatedCarbData: heuristic extraction                         *)
(***************************************************************************)
NoMatch == [found |-> FALSE, n |-> JNum(0)]

\* \s*g(rams)?\s*(of)?\s*<word> from position i: the position after the
\* match, 0 when there is none.
UnitTail(s, i, word) ==
    Lit(s, Spaces(s, Opt(s, Spaces(s, Opt(s, Lit(s, Spaces(s, i), "g"), "rams")), "of")),
        word)

\* /(\d+)\s*g(rams)?\s*(of)?\s*<word>/i at position i.
UnitAt(s, i, word) == UnitTail(s, Number(s, i), word) # 0

\* The leftmost of a set of positions, 0 when there is none.
Leftmost(hits) ==
    IF hits = {} THEN 0 ELSE CHOOSE i \in hits : \A j \in hits : i <= j

\* The rightmost of a set of positions, 0 when there is none.
Rightmost(hits) ==
    IF hits = {} THEN 0 ELSE CHOOSE i \in hits : \A j \in hits : j <= i

\* The leftmost position from i on where the expression matches, 0 when none.
UnitSearch(s, i, word) == Leftmost({k \in i..Len(s) : UnitAt(s, k, word)})

\* The match at position i (0: no match) and Number.parseInt of its group 1.
UnitGroup(s, i) ==
    IF i = 0 THEN NoMatch
    ELSE [found |-> TRUE, n |-> ParseInt(SubSeq(s, i, SkipDigits(s, i) - 1))]

\* responseText.match(/(\d+)\s*g(rams)?\s*(of)?\s*<word>/i)
UnitMatch(s, word) == UnitGroup(s, UnitSearch(s, 1, word))

\* (carb|carbohydrate): the first alternative matches whenever the second does.
carbMatch(s) == UnitMatch(s, "carb")

fiberMatch(s) == UnitMatch(s, "fiber")

sugarMatch(s) == UnitMatch(s, "sugar")

starchMatch(s) == UnitMatch(s, "starch")

\* The position after the longest run of [\s\w] from i.
RECURSIVE SkipName(_, _)
SkipName(s, i) ==
    IF IsSpace(Ch(s, i)) \/ IsWord(Ch(s, i)) THEN SkipName(s, i + 1) ELSE i

NoItem == [end |-> 0, name |-> "", weight |-> JNum(0), carbs |-> JNum(0)]

\* (\w+[\s\w]*?): at position i, the position of the colon; 0 when no match.
\* The colon is the first character after i that is neither \s nor \w.
NameColon(s, i) ==
    IF IsWord(Ch(s, i)) /\ Ch(s, SkipName(s, i)) = ":" THEN SkipName(s, i) ELSE 0

\* foodItemRegex from the colon at position p of a name that starts at i:
\*   :\s*(\d+)\s*g(rams)?,\s*(\d+)\s*g(rams)?\s*(of)?\s*(carbs|carbohydrates)
ItemAfterName(s, i, p) ==
    LET w1 == Spaces(s, Lit(s, p, ":"))
        c1 == Spaces(s, Lit(s, Opt(s, Lit(s, Spaces(s, Number(s, w1)), "g"), "rams"), ","))
        end == Alt(UnitTail(s, Number(s, c1), "carbs"),
                   UnitTail(s, Number(s, c1), "carbohydrates"))
    IN  IF end = 0 THEN NoItem
        ELSE [end |-> end,
              name |-> Trim(SubSeq(s, i, p - 1)),
              weight |-> ParseInt(SubSeq(s, w1, SkipDigits(s, w1) - 1)),
              carbs |-> ParseInt(SubSeq(s, c1, SkipDigits(s, c1) - 1))]

\* foodItemRegex at position i: end is the position after the match, 0 when
\* there is none.
ItemAt(s, i) == ItemAfterName(s, i, NameColon(s, i))

FoodItem(name, weight, carbs, confidence) ==
    JObj([name |-> JStr(name), weight |-> weight,
          carbs |-> carbs, confidence |-> JStr(confidence)])

\* foodItemRegex.exec with lastIndex = from: the leftmost match from there on.
\* The colons from position from on that the rest of foodItemRegex matches at.
ItemColons(s, from) ==
    {p \in from..Len(s) : Ch(s, p) = ":" /\ ItemAfterName(s, p, p).end # 0}

\* The first position of the run of [\s\w] that ends before position p.
NameRunStart(s, p) ==
    Rightmost({j \in 1..(p - 1) : ~(IsSpace(Ch(s, j)) \/ IsWord(Ch(s, j)))}) + 1

\* The positions from lo on where a name that ends at the colon p can start:
\* the \w of the run of [\s\w] before the colon.
NameStartsFrom(s, lo, p) == {k \in lo..(p - 1) : IsWord(Ch(s, k))}

NameStarts(s, from, p) == NameStartsFrom(s, Later(from, NameRunStart(s, p)), p)

\* The leftmost position from lastIndex = from on where foodItemRegex matches,
\* 0 when there is none.  A match that starts at k takes the run of [\s\w]
\* from k and needs the colon right after it.
ItemSearch(s, from) ==
    Leftmost(UNION {NameStarts(s, from, p) : p \in ItemColons(s, from)})

ItemFound(s, at) == IF at = 0 THEN NoItem ELSE ItemAt(s, at)

ExecItem(s, from) == ItemFound(s, ItemSearch(s, from))

\* The while loop over foodItemRegex.exec: each search resumes where the
\* previous match ended.
RECURSIVE ExecItems(_, _)
RECURSIVE PushItems(_, _)
ExecItems(s, from) == PushItems(s, ExecItem(s, from))

\* A loop that puts each new item first: the variant that the property of C8
\* has to tell from PushItems.
PushItemsNewestFirst(s, it) ==
    IF it.end = 0 THEN <<>>
    ELSE ExecItems(s, it.end) \o <<FoodItem(it.name, it.weight, it.carbs, "low")>>

PushItems(s, it) ==
    IF it.end = 0 THEN <<>>
    ELSE <<FoodItem(it.name, it.weight, it.carbs, "low")>> \o ExecItems(s, it.end)

DefaultTotalCarbs == 30

DefaultFiber == 5

DefaultSugar == 10

DefaultStarch == 15

DefaultItemWeight == 100

DefaultItemCarbs == 30

\* Totals that count a component that was not found as 0: the variant that the
\* property of C6 has to tell from Totals.
TotalsOfFound(cm, fm, sm, tm) ==
    LET fiber == IF fm.found THEN fm.n ELSE JNum(0)
        sugar == IF sm.found THEN sm.n ELSE JNum(0)
        starch == IF tm.found THEN tm.n ELSE JNum(0)
    IN  [totalCarbs |->
             IF cm.found THEN cm.n
             ELSE IF fm.found \/ sm.found \/ tm.found THEN Sum(<<fiber, sugar, starch>>)
             ELSE JNum(DefaultTotalCarbs),
         fiber |-> fiber, sugar |-> sugar, starch |-> starch]

\* Lines 229-239: the totals, given the four matches.
Totals(cm, fm, sm, tm) ==
    LET fiber == IF fm.found THEN fm.n ELSE JNum(DefaultFiber)
        sugar == IF sm.found THEN sm.n ELSE JNum(DefaultSugar)
        starch == IF tm.found THEN tm.n ELSE JNum(DefaultStarch)
    IN  [totalCarbs |->
             IF cm.found THEN cm.n
             ELSE IF fm.found \/ sm.found \/ tm.found THEN Sum(<<fiber, sugar, starch>>)
             ELSE JNum(DefaultTotalCarbs),
         fiber |-> fiber, sugar |-> sugar, starch |-> starch]

\* Lines 205-220 and 255-259: the record, given the totals and the items found.
FallbackData(totals, foodItems) ==
    JObj([totalCarbs |-> totals.totalCarbs,
          breakdown |-> JObj([fiber |-> totals.fiber, sugar |-> totals.sugar,
                              starch |-> totals.starch]),
          foodItems |-> JArr(IF Len(foodItems) > 0 THEN foodItems
                             ELSE <<FoodItem("Unknown food item", JNum(DefaultItemWeight),
                                             JNum(DefaultItemCarbs), "low")>>)])

generateEstimatedCarbData(responseText) ==
    FallbackData(Totals(carbMatch(responseText), fiberMatch(responseText),
                        sugarMatch(responseText), starchMatch(responseText)),
                 ExecItems(responseText, 1))

(***************************************************************************)
(* JSON.parse                                                              *)
(*                                                                         *)
(* The grammar of ECMA-404: values are objects, arrays, strings, numbers,  *)
(* true, false and null.  A number is the double nearest to its decimal    *)
(* value (NumberOf).                                                       *)
(***************************************************************************)
JFail == [ok |-> FALSE, val |-> JNull, pos |-> 0]

JOk(val, pos) == [ok |-> TRUE, val |-> val, pos |-> pos]

IsJsonWs(c) == c \in {" ", "\t", "\n", "\r"}

\* The literal lit at position i, case-sensitively.
ExactAt(s, i, lit) ==
    /\ i + Len(lit) - 1 <= Len(s)
    /\ SubSeq(s, i, i + Len(lit) - 1) = lit

RECURSIVE SkipWs(_, _)
SkipWs(s, i) == IF IsJsonWs(Ch(s, i)) THEN SkipWs(s, i + 1) ELSE i

\* The characters U+0001 to U+005F and U+0061 to U+00FF in the order of their
\* codes.  U+0000 and U+0060 cannot be written in a string of this language.
LowCodes ==
    "\t\n\f\r !\"#$%&'()*+,-./0123456789:;<=>?@ABCDEFGHIJKLMNOPQRSTUVWXYZ[\\]^_"

HighCodes ==
    "abcdefghijklmnopqrstuvwxyz{|}~ ¡¢£¤¥¦§¨©ª«¬­®¯°±²³´µ¶·¸¹º»¼½¾¿ÀÁÂÃÄÅÆÇÈÉÊËÌÍÎÏÐÑÒÓÔÕÖ×ØÙÚÛÜÝÞßàáâãäåæçèéêëìíîïðñòóôõö÷øùúûüýþÿ"

\* The white space that a string of this language cannot hold: U+2000 to
\* U+200A, U+2028, U+2029, U+202F, U+205F and U+3000.
OtherSpaceCodes == (8192..8202) \cup {8232, 8233, 8239, 8287, 12288}

\* String.fromCharCode(n), for n up to 65535.  A string of this language
\* holds U+0001 to U+00FF without U+0060, U+1680 and U+FEFF.  In the place
\* of any other character it holds one character of the same kind: U+1680
\* for white space, U+001A for U+0000 (a control character as well) and
\* U+00A4 for the rest, which like U+00A4 are no white space, no character
\* of \w, no digit and no character of the JSON grammar.  The length of a
\* string and what the regular expressions, trim and JSON.parse make of it
\* are kept; which of these characters it was is not.
CharOfCode(n) ==
    CASE n \in 1..95 -> Ch(LowCodes, n)
      [] n \in 97..255 -> Ch(HighCodes, n - 96)
      [] n = 5760 -> " "
      [] n = 65279 -> "﻿"
      [] n \in OtherSpaceCodes -> " "
      [] n = 0 -> Ch(LowCodes, 26)
      [] OTHER -> "¤"

\* The characters below U+0020, which a JSON string holds only escaped.
ControlChars == {Ch(LowCodes, n) : n \in 1..31}

HexDigits == "0123456789abcdef"

\* The value of the four hexadecimal digits from i, -1 when they are not four
\* hexadecimal digits.
HexValue(s, i) ==
    LET Val(k) ==
            IF \E d \in 1..16 : Ch(HexDigits, d) = Lower(Ch(s, k))
            THEN (CHOOSE d \in 1..16 : Ch(HexDigits, d) = Lower(Ch(s, k))) - 1
            ELSE 0 - 4096
        sum == 4096 * Val(i) + 256 * Val(i + 1) + 16 * Val(i + 2) + Val(i + 3)
    IN  IF Val(i) < 0 \/ Val(i + 1) < 0 \/ Val(i + 2) < 0 \/ Val(i + 3) < 0
        THEN 0 - 1
        ELSE sum

\* The characters of a string literal from i, up to its closing quote.  An
\* escape \uXXXX is the one character (code unit) CharOfCode of its value.
RECURSIVE StringBody(_, _, _)
StringBody(s, i, acc) ==
    LET c == Ch(s, i)
        e == Ch(s, i + 1)
    IN  CASE c = "" -> JFail
          [] c = "\"" -> JOk(JStr(acc), i + 1)
          [] c \in ControlChars -> JFail
          [] c = "\\" ->
                CASE e \in {"\"", "\\", "/"} -> StringBody(s, i + 2, acc \o e)
                  [] e = "b" -> StringBody(s, i + 2, acc \o CharOfCode(8))
                  [] e = "f" -> StringBody(s, i + 2, acc \o "\f")
                  [] e = "n" -> StringBody(s, i + 2, acc \o "\n")
                  [] e = "r" -> StringBody(s, i + 2, acc \o "\r")
                  [] e = "t" -> StringBody(s, i + 2, acc \o "\t")
                  [] e = "u" /\ HexValue(s, i + 2) >= 0 ->
                        StringBody(s, i + 6, acc \o CharOfCode(HexValue(s, i + 2)))
                  [] OTHER -> JFail
          [] OTHER -> StringBody(s, i + 1, acc \o c)

\* (\.\d+)? from position i; 0 when a "." is followed by no digit.
Fraction(s, i) ==
    IF Ch(s, i) # "." THEN i
    ELSE IF IsDigit(Ch(s, i + 1)) THEN SkipDigits(s, i + 1)
    ELSE 0

\* ([eE][+-]?\d+)? from position i; 0 when the exponent has no digit.
Exponent(s, i) ==
    IF i = 0 \/ Ch(s, i) \notin {"e", "E"} THEN i
    ELSE IF Ch(s, i + 1) \in {"+", "-"} THEN Number(s, i + 2)
    ELSE Number(s, i + 1)

\* (0|[1-9]\d*) from position i; 0 when there is no digit.
IntegerPart(s, i) ==
    IF Ch(s, i) = "0" THEN i + 1 ELSE Number(s, i)

\* The value of the exponent digits ds, capped where every double has become
\* 0 or Infinity.
ExponentValue(neg, ds) ==
    IF Len(StripLeadingZeros(ds)) > 6 THEN (IF neg THEN 0 - 1000000 ELSE 1000000)
    ELSE IF neg THEN 0 - IntOfDigits(StripLeadingZeros(ds))
    ELSE IntOfDigits(StripLeadingZeros(ds))

\* The value of a number with integer digits int, fraction digits frac and
\* exponent e.
NumberValue(neg, int, frac, e) ==
    NumberOf(neg, StripLeadingZeros(int \o frac),
             Len(StripLeadingZeros(int \o frac)) - Len(frac) + e)

\* The exponent of the number whose exponent part is s[f..x-1].
ExponentAt(s, f, x) ==
    IF x = f THEN 0
    ELSE IF Ch(s, f + 1) \in {"+", "-"}
    THEN ExponentValue(Ch(s, f + 1) = "-", SubSeq(s, f + 2, x - 1))
    ELSE ExponentValue(FALSE, SubSeq(s, f + 1, x - 1))

\* The number that starts at i, whose digits start at a and whose integer
\* part ends before b.
NumberFrom(s, i, a, b) ==
    IF b = 0 \/ Exponent(s, Fraction(s, b)) = 0 THEN JFail
    ELSE JOk(NumberValue(a > i, SubSeq(s, a, b - 1),
                         IF Fraction(s, b) > b THEN SubSeq(s, b + 1, Fraction(s, b) - 1)
                         ELSE "",
                         ExponentAt(s, Fraction(s, b), Exponent(s, Fraction(s, b)))),
             Exponent(s, Fraction(s, b)))

\* -?(0|[1-9]\d*)(\.\d+)?([eE][+-]?\d+)? at position i.
ParseNumber(s, i) ==
    IF Ch(s, i) = "-" THEN NumberFrom(s, i, i + 1, IntegerPart(s, i + 1))
    ELSE NumberFrom(s, i, i, IntegerPart(s, i))

RECURSIVE ParseValue(_, _)
RECURSIVE ParseElements(_, _, _)
RECURSIVE ParseMembers(_, _, _)

\* After the element r of an array: "," and the next element, or "]".
AfterElement(s, acc, r, k) ==
    IF ~r.ok THEN JFail
    ELSE IF Ch(s, k) = "," THEN ParseElements(s, SkipWs(s, k + 1), Append(acc, r.val))
    ELSE IF Ch(s, k) = "]" THEN JOk(JArr(Append(acc, r.val)), k + 1)
    ELSE JFail

\* The position after the value r and the whitespace that follows it.
AfterValue(s, r) == IF r.ok THEN SkipWs(s, r.pos) ELSE 0

\* The elements of an array from i (the first character of an element).
ParseElements(s, i, acc) ==
    AfterElement(s, acc, ParseValue(s, i), AfterValue(s, ParseValue(s, i)))

\* After the member key: r of an object: "," and the next member, or "}".  A
\* repeated key keeps its last value.
AfterMember(s, acc, key, r, k) ==
    IF ~r.ok THEN JFail
    ELSE IF Ch(s, k) = "," THEN ParseMembers(s, SkipWs(s, k + 1), (key :> r.val) @@ acc)
    ELSE IF Ch(s, k) = "}" THEN JOk(JObj((key :> r.val) @@ acc), k + 1)
    ELSE JFail

\* After the key of a member, c the position after the key and whitespace.
AfterKey(s, acc, key, c) ==
    IF ~key.ok \/ Ch(s, c) # ":" THEN JFail
    ELSE AfterMember(s, acc, key.val.str, ParseValue(s, SkipWs(s, c + 1)),
                     AfterValue(s, ParseValue(s, SkipWs(s, c + 1))))

\* A string literal at position i.
ParseString(s, i) == IF Ch(s, i) = "\"" THEN StringBody(s, i + 1, "") ELSE JFail

\* The members of an object from i (the opening quote of a key).
ParseMembers(s, i, acc) ==
    AfterKey(s, acc, ParseString(s, i), AfterValue(s, ParseString(s, i)))

ParseValue(s, i) ==
    CASE Ch(s, i) = "{" ->
            IF Ch(s, SkipWs(s, i + 1)) = "}" THEN JOk(JObj(<<>>), SkipWs(s, i + 1) + 1)
            ELSE ParseMembers(s, SkipWs(s, i + 1), <<>>)
      [] Ch(s, i) = "[" ->
            IF Ch(s, SkipWs(s, i + 1)) = "]" THEN JOk(JArr(<<>>), SkipWs(s, i + 1) + 1)
            ELSE ParseElements(s, SkipWs(s, i + 1), <<>>)
      [] Ch(s, i) = "\"" -> ParseString(s, i)
      [] Ch(s, i) = "-" \/ IsDigit(Ch(s, i)) -> ParseNumber(s, i)
      [] ExactAt(s, i, "true") -> JOk(JBool(TRUE), i + 4)
      [] ExactAt(s, i, "false") -> JOk(JBool(FALSE), i + 5)
      [] ExactAt(s, i, "null") -> JOk(JNull, i + 4)
      [] OTHER -> JFail

\* The whole text is one value: only whitespace follows it.
WholeText(source, r) ==
    IF r.ok /\ SkipWs(source, r.pos) = Len(source) + 1 THEN r ELSE JFail

\* JSON.parse(source): ok = FALSE stands for the SyntaxError it throws.
JSONParse(source) == WholeText(source, ParseValue(source, SkipWs(source, 1)))

(***************************************************************************)
(* analyzeImage: normalization of the response content                     *)
(***************************************************************************)
\* if (!carbData.foodItems) { carbData.foodItems = [] } in a module (strict
\* mode): reading a property of null throws, and so does creating a property
\* on a primitive.
EnsureFoodItems(val) ==
    CASE val.kind \in {"null", "bool", "num", "real", "str"} ->
            [threw |-> TRUE, val |-> val]
      [] val.kind = "arr" ->
            [threw |-> FALSE, val |-> [val EXCEPT !.kind = "arr+foodItems"]]
      [] val.kind = "arr+foodItems" -> [threw |-> FALSE, val |-> val]
      [] OTHER ->
            IF HasKey(val, "foodItems") /\ Truthy(val.props["foodItems"])
            THEN [threw |-> FALSE, val |-> val]
            ELSE [threw |-> FALSE,
                  val |-> JObj(("foodItems" :> JArr(<<>>)) @@ val.props)]

\* The outcome of one parsing attempt, given what JSON.parse and the
\* foodItems backfill did.
Attempted(p, e) ==
    IF p.ok /\ ~e.threw THEN [ok |-> TRUE, val |-> e.val]
    ELSE [ok |-> FALSE, val |-> JNull]

\* JSON.parse(source) followed by the foodItems backfill: one parsing attempt
\* (the try blocks at lines 330-339 and 346-354).
ParseAttempt(source) ==
    Attempted(JSONParse(source), EnsureFoodItems(JSONParse(source).val))

\* The greedy span from the first "{" at position open to the last "}".
FirstOpen(s, i) == Leftmost({k \in i..Len(s) : Ch(s, k) = "{"})

LastClose(s, i) == Rightmost({k \in 1..i : Ch(s, k) = "}"})

Span(s, open, close) ==
    IF open # 0 /\ open < close
    THEN [found |-> TRUE, matched |-> SubSeq(s, open, close)]
    ELSE [found |-> FALSE, matched |-> ""]

\* The lazy expression /\{[\s\S]*?\}/, from the first "{" to the first "}"
\* after it: the variant that the property of C5 has to tell from jsonMatch.
jsonMatchShortest(content) ==
    Span(content, FirstOpen(content, 1),
         Leftmost({k \in (FirstOpen(content, 1) + 1)..Len(content) : Ch(content, k) = "}"}))

\* content.match(/\{[\s\S]*\}/): greedy, from the first "{" to the last "}".
jsonMatch(content) == Span(content, FirstOpen(content, 1), LastClose(content, Len(content)))

EstimateWarning == "Could not get precise values. Showing estimates."

NullMatchError == "Cannot read properties of null (reading 'match')"

\* String(content) as JSON.parse applies it to its argument.
ContentText(content) == IF content.kind = "null" THEN "null" ELSE content.str

\* What a round stores with setCarbData and setError, and by which attempt.
Parsed(via, record) ==
    [via |-> via, stored |-> TRUE, record |-> record, error |-> JNull]

\* An estimate stored without the warning: the variant that the property of
\* C3 has to tell from Estimated.
EstimatedSilently(content) ==
    [via |-> "estimated", stored |-> TRUE,
     record |-> generateEstimatedCarbData(content.str), error |-> JNull]

\* Lines 357-360 and 363-366.
Estimated(content) ==
    [via |-> "estimated", stored |-> TRUE,
     record |-> generateEstimatedCarbData(content.str), error |-> JStr(EstimateWarning)]

\* content.match threw in the catch block: the exception reaches the outer
\* catch of analyzeImage (lines 369-371), which stores its message.
Threw(message) ==
    [via |-> "threw", stored |-> FALSE, record |-> JNull, error |-> JStr(message)]

\* Lines 346-361, given the outcome of the attempt on the matched span.
AfterNested(content, nested) ==
    IF nested.ok THEN Parsed("embedded", nested.val) ELSE Estimated(content)

\* Lines 344-367, given the match.
AfterMatch(content, jm) ==
    IF jm.found THEN AfterNested(content, ParseAttempt(jm.matched)) ELSE Estimated(content)

\* Lines 330-368, given the outcome of the direct attempt.
AfterDirect(content, direct) ==
    IF direct.ok THEN Parsed("direct", direct.val)
    ELSE IF content.kind = "null" THEN Threw(NullMatchError)
    ELSE AfterMatch(content, jsonMatch(content.str))

\* Lines 329-368 for a response content: a string, or null when the message
\* carries none.
NormalizeContent(content) == AfterDirect(content, ParseAttempt(ContentText(content)))

(***************************************************************************)
(* The inference service                                                   *)
(***************************************************************************)
\* The most requests issued in a run, and the most images taken.
MaxRequests == 2

MaxImages == 2

\* The most requests issued in a run that has room for a retry while the
\* requests of two images are under way.
MaxOverlapRequests == 3

\* capturedImage = null; images are numbered from 1.
NoImage == 0

\* No request: request ids are numbered from 1.
NoRequest == 0

ApiKeys == {"", "sk-1"}

FullRecordText ==
    "{\"totalCarbs\": 45, \"breakdown\": {\"fiber\": 3, \"sugar\": 2, \"starch\": 40}, "
        \o "\"foodItems\": [{\"name\": \"Rice\", \"weight\": 200, \"carbs\": 45, "
        \o "\"confidence\": \"high\"}]}"

\* data.choices[0].message.content of a successful response: a string, or
\* null when the message carries no content.
OkContents ==
    { JStr(FullRecordText),
      JStr("{\"totalCarbs\": 20}"),
      JStr("Here you go: {\"totalCarbs\": 20, \"foodItems\": []} Thanks!"),
      JStr("About 42g of carbs."),
      JStr("5"),
      JStr(""),
      JNull }

\* Responses with a non-success status: status, statusText and body.  The
\* message of the last one is an object that the template literal of line
\* 314 throws on.
ErrorResponses ==
    { [status |-> 401, statusText |-> "Unauthorized",
       body |-> "{\"error\": {\"message\": \"Incorrect API key provided\"}}"],
      [status |-> 500, statusText |-> "Internal Server Error", body |-> ""],
      [status |-> 400, statusText |-> "Bad Request",
       body |-> "{\"error\": {\"message\": {\"toString\": \"x\"}}}"] }

\* The message fetch rejects with when the request cannot be made.
FetchFailedMessage == "Failed to fetch"

\* a || b on two strings.
OrText(a, b) == IF a # "" THEN a ELSE b

\* x[k] of a value other than null, for the keys the page reads: a member of
\* an object, the length of an array or of a string, the foodItems that the
\* backfill gave an array; null stands for undefined.
Member(x, k) ==
    CASE HasKey(x, k) -> x.props[k]
      [] k = "length" /\ x.kind \in {"arr", "arr+foodItems"} -> JNum(Len(x.items))
      [] k = "length" /\ x.kind = "str" -> JNum(Len(x.str))
      [] k = "foodItems" /\ x.kind = "arr+foodItems" -> JArr(<<>>)
      [] OTHER -> JNull

\* Converting x to a primitive throws a TypeError, whether a string or a
\* number is asked for: x is an object with a member toString of its own,
\* which is no function in a value that JSON.parse gave and hides the one of
\* Object.prototype, or x is an array that has such an object among the
\* elements it joins.
RECURSIVE ToPrimitiveThrows(_)
ToPrimitiveThrows(x) ==
    CASE x.kind = "obj" -> HasKey(x, "toString")
      [] x.kind \in {"arr", "arr+foodItems"} ->
            \E k \in 1..Len(x.items) :
                x.items[k].kind # "null" /\ ToPrimitiveThrows(x.items[k])
      [] OTHER -> FALSE

\* The string of an x that can be converted: an array is its elements joined
\* by ",", null elements left empty.
RECURSIVE StringOf(_)
RECURSIVE JoinValues(_, _)
StringOf(x) ==
    CASE x.kind = "null" -> "null"
      [] x.kind = "bool" -> IF x.bool THEN "true" ELSE "false"
      [] x.kind = "num" -> ToString(x.num)
      [] x.kind \in {"real", "str"} -> x.str
      [] x.kind = "obj" -> "[object Object]"
      [] OTHER -> JoinValues(x.items, 1)

\* Array.prototype.join(",") from element k on.
JoinValues(items, k) ==
    IF k > Len(items) THEN ""
    ELSE (IF items[k].kind = "null" THEN "" ELSE StringOf(items[k]))
             \o (IF k < Len(items) THEN "," ELSE "") \o JoinValues(items, k + 1)

\* String(x), as a template literal applies it: the string, or ok = FALSE
\* when it throws.
JSString(x) ==
    IF ToPrimitiveThrows(x) THEN [ok |-> FALSE, str |-> ""]
    ELSE [ok |-> TRUE, str |-> StringOf(x)]

\* Lines 313-317, given errorData.error?.message: the detail is
\* ${message || response.statusText} (line 314), or, when that template
\* throws on the message, the one of the catch branch (line 316).
ErrorDetail(msg, errorText, statusText) ==
    IF ~Truthy(msg) THEN statusText
    ELSE IF JSString(msg).ok THEN JSString(msg).str
    ELSE OrText(errorText, statusText)

\* Lines 311-317, given JSON.parse(errorText): a body that is no JSON, or is
\* the JSON null, takes the catch branch.
ApiErrorDetail(resp, p) ==
    IF p.ok /\ p.val.kind # "null"
    THEN ErrorDetail(Member(Member(p.val, "error"), "message"), resp.body,
                     resp.statusText)
    ELSE OrText(resp.body, resp.statusText)

\* Lines 309-320: the message of the Error thrown for a non-success status.
ApiErrorMessage(resp) ==
    "API error: " \o ToString(resp.status) \o " - "
        \o ApiErrorDetail(resp, JSONParse(resp.body))

\* The message of each response in ErrorResponses, computed once.
RECURSIVE ApiErrorMessagesOf(_)
ApiErrorMessagesOf(resps) ==
    IF resps = {} THEN <<>>
    ELSE LET resp == CHOOSE x \in resps : TRUE
         IN (resp :> ApiErrorMessage(resp)) @@ ApiErrorMessagesOf(resps \ {resp})

ApiErrorMessages == ApiErrorMessagesOf(ErrorResponses)

\* The normalization of each content in OkContents, computed once.
RECURSIVE NormalizedOf(_)
NormalizedOf(contents) ==
    IF contents = {} THEN <<>>
    ELSE LET content == CHOOSE x \in contents : TRUE
         IN (content :> NormalizeContent(content)) @@ NormalizedOf(contents \ {content})

Normalized == NormalizedOf(OkContents)

(***************************************************************************)
(* Files offered to the hidden file input                                  *)
(***************************************************************************)
MaxFileSize == 5 * 1024 * 1024

Files ==
    { [type |-> "image/png", size |-> 204800],
      [type |-> "image/jpeg", size |-> 6291456],
      [type |-> "application/pdf", size |-> 204800] }

\* file.type.startsWith("image/")
IsImageType(type) == Len(type) >= 6 /\ SubSeq(type, 1, 6) = "image/"

(***************************************************************************)
(* State                                                                   *)
(***************************************************************************)
VARIABLES
    view,             \* "camera" | "preview" | "settings" | "details", and
                      \* "crashed" once a render threw and the page is gone
    apiKey,           \* the in-memory credential
    showApiKeyModal,
    capturedImage,    \* NoImage or an image
    isLoading,
    isUploading,
    error,            \* JNull or a message
    carbData,         \* JNull or the current record
    rawResponse,      \* JNull or the content of the last response
    activeTab,        \* "summary" | "items": the tab of the details view
    storedKey,        \* localStorage["openai-api-key"], "" when unset
    mounted,          \* the mount effect has run
    pickerOpen,       \* the file chooser of the hidden input is open
    upload,           \* the handleFileSelect call suspended in compressImage
    requests,         \* the fetches of analyzeImage that have not settled
    toast,            \* the title of the last toast, "" when none
    nextReq,          \* the id of the next request
    nextImage,        \* the next image
    carbFrom,         \* history: the request and image whose response stored carbData,
                      \* and the request whose record that one replaced
    lastOp,           \* history: the handler that ran last, the request it issued
                      \* or settled, whether that request ran alone, and the
                      \* type of the file a handleFileSelect was given
    requestLimit,     \* the most requests issued in this run
    input,            \* normalizer harness: a response text and its parts
    output            \* normalizer harness: what was computed from input

uiVars ==
    <<view, apiKey, showApiKeyModal, capturedImage, isLoading, isUploading, error,
      carbData, rawResponse, activeTab, storedKey, mounted, pickerOpen, upload,
      requests, toast, nextReq, nextImage, carbFrom, lastOp>>

harnessVars == <<requestLimit, input, output>>

vars == <<uiVars, harnessVars>>

NoUpload == [active |-> FALSE, apiKey |-> ""]

NoSource == [req |-> NoRequest, image |-> NoImage, over |-> NoRequest]

\* A quantity that a text of the normalizer harness does not mention; the
\* others are the digits written into the text.
Absent == ""

\* The harness input of the runs of the page.
NoParts ==
    [family |-> "idle", content |-> "", prefix |-> "", body |-> "", suffix |-> "",
     lead |-> "",
     total |-> Absent, fiber |-> Absent, sugar |-> Absent, starch |-> Absent,
     items |-> <<>>]

NoOut == [via |-> "none", stored |-> FALSE, record |-> JNull, error |-> JNull]

Did(op, req, alone) == [op |-> op, req |-> req, alone |-> alone, file |-> ""]

UIInit ==
    /\ view = "camera"
    /\ apiKey = ""
    /\ showApiKeyModal = FALSE
    /\ capturedImage = NoImage
    /\ isLoading = FALSE
    /\ isUploading = FALSE
    /\ error = JNull
    /\ carbData = JNull
    /\ rawResponse = JNull
    /\ activeTab = "summary"
    /\ storedKey \in ApiKeys
    /\ mounted = FALSE
    /\ pickerOpen = FALSE
    /\ upload = NoUpload
    /\ requests = {}
    /\ toast = ""
    /\ nextReq = 1
    /\ nextImage = 1
    /\ carbFrom = NoSource
    /\ lastOp = Did("init", NoRequest, FALSE)

Init == UIInit /\ requestLimit = MaxRequests /\ input = NoParts /\ output = NoOut

(***************************************************************************)
(* Rendering (renderView, lines 413-713)                                   *)
(***************************************************************************)
\* What the preview view renders (lines 499-523).
PreviewPaneOf(loading, err, data) ==
    IF loading THEN "loading"
    ELSE IF Truthy(err) /\ ~Truthy(data) THEN "error"
    ELSE IF Truthy(data) THEN "result"
    ELSE "none"

PreviewPane == PreviewPaneOf(isLoading, error, carbData)

\* React renders x as a child: it throws on an object, also inside an array.
RECURSIVE ChildOk(_)
ChildOk(x) ==
    CASE x.kind = "obj" -> FALSE
      [] x.kind \in {"arr", "arr+foodItems"} ->
            \A k \in 1..Len(x.items) : ChildOk(x.items[k])
      [] OTHER -> TRUE

\* Number(str) > 0: the text without the whitespace around it is a positive
\* decimal, Infinity, or a hexadecimal, octal or binary literal above zero.
PositiveText(str) ==
    LET u == Trim(str)
        a == IF Ch(u, 1) \in {"+", "-"} THEN 2 ELSE 1
        b == SkipDigits(u, a)
        f == IF Ch(u, b) = "." THEN SkipDigits(u, b + 1) ELSE b
        x == Exponent(u, f)
        radix == CASE Lower(Ch(u, 2)) = "x" -> 16
                   [] Lower(Ch(u, 2)) = "o" -> 8
                   [] Lower(Ch(u, 2)) = "b" -> 2
                   [] OTHER -> 0
        DigitOf(k) == IF \E d \in 1..16 : Ch(HexDigits, d) = Lower(Ch(u, k))
                      THEN (CHOOSE d \in 1..16 : Ch(HexDigits, d) = Lower(Ch(u, k))) - 1
                      ELSE 16
    IN  IF Ch(u, 1) = "0" /\ radix # 0
        THEN /\ Len(u) >= 3
             /\ \A k \in 3..Len(u) : DigitOf(k) < radix
             /\ \E k \in 3..Len(u) : DigitOf(k) > 0
        ELSE /\ Ch(u, 1) # "-"
             /\ \/ SubSeq(u, a, Len(u)) = "Infinity"
                \/ /\ b > a \/ f > b + 1
                   /\ x = Len(u) + 1
                   /\ NumberValue(FALSE, SubSeq(u, a, b - 1),
                                  IF f > b THEN SubSeq(u, b + 1, f - 1) ELSE "",
                                  ExponentAt(u, f, x)) # JNum(0)

\* x > 0 of an x that can be converted, null standing for undefined as well
\* (both compare false).
IsPositive(x) ==
    CASE x.kind = "num" -> x.num > 0
      [] x.kind = "bool" -> x.bool
      [] x.kind = "real" -> Ch(x.str, 1) # "-"
      [] x.kind = "str" -> PositiveText(x.str)
      [] x.kind \in {"arr", "arr+foodItems"} -> PositiveText(StringOf(x))
      [] OTHER -> FALSE

\* x > 0: whether it holds, or ok = FALSE when the comparison throws.
Positive(x) ==
    [ok |-> ~ToPrimitiveThrows(x), holds |-> ~ToPrimitiveThrows(x) /\ IsPositive(x)]

\* carbData.foodItems && carbData.foodItems.length > 0 (line 625).
ItemsListed(data) ==
    /\ Truthy(Member(data, "foodItems"))
    /\ Positive(Member(Member(data, "foodItems"), "length")).holds

\* item.carbs / item.weight (line 649) throws: one of the two cannot be
\* converted to a number.
RatioThrows(item) ==
    ToPrimitiveThrows(Member(item, "carbs")) \/ ToPrimitiveThrows(Member(item, "weight"))

\* Building the elements of the details view throws a TypeError (lines
\* 579-595, 625-649), whichever tab is shown: the breakdown is null or
\* undefined, the length of the foodItems cannot be compared with 0, the
\* foodItems to list have no map method, one of them is null, or the ratio
\* of one of them cannot be computed.
DetailsThrows(data) ==
    \/ Member(data, "breakdown").kind = "null"
    \/ /\ Truthy(Member(data, "foodItems"))
       /\ ~Positive(Member(Member(data, "foodItems"), "length")).ok
    \/ /\ ItemsListed(data)
       /\ \/ Member(data, "foodItems").kind # "arr"
          \/ \E k \in 1..Len(Member(data, "foodItems").items) :
                 \/ Member(data, "foodItems").items[k].kind = "null"
                 \/ RatioThrows(Member(data, "foodItems").items[k])

\* The children of the tab that is shown can be rendered; the content of the
\* other tab is not rendered.
TabRenders(data, tab) ==
    IF tab = "summary"
    THEN /\ ChildOk(Member(data, "totalCarbs"))
         /\ \A q \in {"fiber", "sugar", "starch"} :
                ChildOk(Member(Member(data, "breakdown"), q))
    ELSE ItemsListed(data) =>
            \A k \in 1..Len(Member(data, "foodItems").items) :
                LET item == Member(data, "foodItems").items[k] IN
                /\ \A q \in {"name", "weight", "carbs"} : ChildOk(Member(item, q))
                /\ Truthy(Member(item, "confidence")) => ChildOk(Member(item, "confidence"))

\* Rendering the view v throws: the result card of the preview (line 516) or
\* the details view (lines 538-663) with a record they cannot show.
RenderThrows(v, data, loading, err, tab) ==
    \/ /\ v = "preview"
       /\ PreviewPaneOf(loading, err, data) = "result"
       /\ ~ChildOk(Member(data, "totalCarbs"))
    \/ /\ v = "details"
       /\ Truthy(data)
       /\ DetailsThrows(data) \/ ~TabRenders(data, tab)

\* The view after the render that follows a handler: no error boundary
\* catches what a render throws, so React unmounts the page.
Rendered(v, data, loading, err, tab) ==
    IF RenderThrows(v, data, loading, err, tab) THEN "crashed" ELSE v

Crashed == view = "crashed"

\* The page takes clicks: the mount effect has run, the page is not gone, and
\* neither the modal credential dialog nor the file chooser is open.
Interactive == mounted /\ ~Crashed /\ ~showApiKeyModal /\ ~pickerOpen

(***************************************************************************)
(* Handlers                                                                *)
(***************************************************************************)
\* The mount effect (lines 55-60).
Mount ==
    /\ ~mounted
    /\ mounted' = TRUE
    /\ apiKey' = IF storedKey # "" THEN storedKey ELSE apiKey
    /\ lastOp' = Did("mount", NoRequest, FALSE)
    /\ UNCHANGED <<activeTab, view, showApiKeyModal, capturedImage, isLoading, isUploading,
                   error, carbData, rawResponse, storedKey, pickerOpen, upload,
                   requests, toast, nextReq, nextImage, carbFrom>>

\* analyzeImage up to its fetch (lines 263-305), called with the credential
\* key of the calling render.
StartAnalysis(image, key) ==
    /\ nextReq <= requestLimit
    /\ isLoading' = TRUE
    /\ error' = JNull
    /\ rawResponse' = JNull
    /\ requests' = {[r EXCEPT !.alone = FALSE] : r \in requests}
                       \cup {[id |-> nextReq, image |-> image, apiKey |-> key,
                              alone |-> requests = {}]}
    /\ nextReq' = nextReq + 1

\* A capturePhoto that does not look at the credential: the variant that the
\* property of C1 has to tell from CapturePhoto.
CapturePhotoUnchecked(shot) ==
    /\ Interactive
    /\ view = "camera"
    /\ IF shot
       THEN /\ nextImage <= MaxImages
            /\ capturedImage' = nextImage
            /\ nextImage' = nextImage + 1
            /\ view' = "preview"
            /\ StartAnalysis(nextImage, apiKey)
            /\ lastOp' = Did("capturePhoto", nextReq, FALSE)
            /\ UNCHANGED showApiKeyModal
       ELSE /\ lastOp' = Did("capturePhoto", NoRequest, FALSE)
            /\ UNCHANGED <<view, capturedImage, isLoading, error, rawResponse,
                           requests, nextReq, nextImage, showApiKeyModal>>
    /\ UNCHANGED <<activeTab, apiKey, isUploading, carbData, storedKey, mounted, pickerOpen,
                   upload, toast, carbFrom>>

\* capturePhoto (lines 188-200); shot = FALSE when getScreenshot returns null.
CapturePhoto(shot) ==
    /\ Interactive
    /\ view = "camera"
    /\ IF apiKey = ""
       THEN /\ showApiKeyModal' = TRUE
            /\ lastOp' = Did("capturePhoto", NoRequest, FALSE)
            /\ UNCHANGED <<view, capturedImage, isLoading, error, rawResponse,
                           requests, nextReq, nextImage>>
       ELSE IF shot
       THEN /\ nextImage <= MaxImages
            /\ capturedImage' = nextImage
            /\ nextImage' = nextImage + 1
            /\ view' = "preview"
            /\ StartAnalysis(nextImage, apiKey)
            /\ lastOp' = Did("capturePhoto", nextReq, FALSE)
            /\ UNCHANGED showApiKeyModal
       ELSE /\ lastOp' = Did("capturePhoto", NoRequest, FALSE)
            /\ UNCHANGED <<view, capturedImage, isLoading, error, rawResponse,
                           requests, nextReq, nextImage, showApiKeyModal>>
    /\ UNCHANGED <<activeTab, apiKey, isUploading, carbData, storedKey, mounted, pickerOpen,
                   upload, toast, carbFrom>>

\* handleGalleryClick (lines 70-76); the button is disabled while isUploading.
HandleGalleryClick ==
    /\ Interactive
    /\ view = "camera"
    /\ ~isUploading
    /\ IF apiKey = ""
       THEN showApiKeyModal' = TRUE /\ UNCHANGED pickerOpen
       ELSE pickerOpen' = TRUE /\ UNCHANGED showApiKeyModal
    /\ lastOp' = Did("handleGalleryClick", NoRequest, FALSE)
    /\ UNCHANGED <<activeTab, view, apiKey, capturedImage, isLoading, isUploading, error,
                   carbData, rawResponse, storedKey, mounted, upload, requests,
                   toast, nextReq, nextImage, carbFrom>>

\* The file chooser is closed without a file: no change event.
CancelPicker ==
    /\ pickerOpen /\ ~Crashed
    /\ pickerOpen' = FALSE
    /\ lastOp' = Did("cancelPicker", NoRequest, FALSE)
    /\ UNCHANGED <<activeTab, view, apiKey, showApiKeyModal, capturedImage, isLoading,
                   isUploading, error, carbData, rawResponse, storedKey, mounted,
                   upload, requests, toast, nextReq, nextImage, carbFrom>>

\* A handleFileSelect without the check of the file type: the variant that
\* the property of C9 has to tell from HandleFileSelect.
HandleFileSelectAnyType(file) ==
    /\ pickerOpen /\ ~Crashed
    /\ pickerOpen' = FALSE
    /\ toast' = IF file.size > MaxFileSize THEN "File too large" ELSE toast
    /\ isUploading' = TRUE
    /\ upload' = [active |-> TRUE, apiKey |-> apiKey]
    /\ lastOp' = [Did("handleFileSelect", NoRequest, FALSE) EXCEPT !.file = file.type]
    /\ UNCHANGED <<activeTab, view, apiKey, showApiKeyModal, capturedImage, isLoading, error,
                   carbData, rawResponse, storedKey, mounted, requests, nextReq,
                   nextImage, carbFrom>>

\* handleFileSelect (lines 79-126) up to its await of compressImage; for a
\* file that is no image it runs to its end, finally included.
HandleFileSelect(file) ==
    /\ pickerOpen /\ ~Crashed
    /\ pickerOpen' = FALSE
    /\ IF ~IsImageType(file.type)
       THEN /\ toast' = "Invalid file type"
            /\ isUploading' = FALSE
            /\ UNCHANGED upload
       ELSE /\ toast' = IF file.size > MaxFileSize THEN "File too large" ELSE toast
            /\ isUploading' = TRUE
            /\ upload' = [active |-> TRUE, apiKey |-> apiKey]
    /\ lastOp' = [Did("handleFileSelect", NoRequest, FALSE) EXCEPT !.file = file.type]
    /\ UNCHANGED <<activeTab, view, apiKey, showApiKeyModal, capturedImage, isLoading, error,
                   carbData, rawResponse, storedKey, mounted, requests, nextReq,
                   nextImage, carbFrom>>

\* A continuation that shows the preview without calling analyzeImage: the
\* variant that the property of C14 has to tell from CompressResolved.
CompressResolvedWithoutRound ==
    /\ upload.active /\ ~Crashed
    /\ nextImage <= MaxImages
    /\ capturedImage' = nextImage
    /\ nextImage' = nextImage + 1
    /\ view' = "preview"
    /\ isUploading' = FALSE
    /\ upload' = NoUpload
    /\ lastOp' = Did("compressResolved", NoRequest, FALSE)
    /\ UNCHANGED <<activeTab, apiKey, showApiKeyModal, carbData, storedKey, mounted,
                   pickerOpen, toast, carbFrom, isLoading, error, rawResponse,
                   requests, nextReq>>

\* handleFileSelect after compressImage resolved (lines 107-115, 123-125).
CompressResolved ==
    /\ upload.active /\ ~Crashed
    /\ nextImage <= MaxImages
    /\ capturedImage' = nextImage
    /\ nextImage' = nextImage + 1
    /\ view' = "preview"
    /\ StartAnalysis(nextImage, upload.apiKey)
    /\ isUploading' = FALSE
    /\ upload' = NoUpload
    /\ lastOp' = Did("compressResolved", nextReq, FALSE)
    /\ UNCHANGED <<activeTab, apiKey, showApiKeyModal, carbData, storedKey, mounted,
                   pickerOpen, toast, carbFrom>>

\* handleFileSelect after compressImage rejected (lines 116-125).
CompressRejected ==
    /\ upload.active /\ ~Crashed
    /\ toast' = "Error processing image"
    /\ isUploading' = FALSE
    /\ upload' = NoUpload
    /\ lastOp' = Did("compressRejected", NoRequest, FALSE)
    /\ UNCHANGED <<activeTab, view, apiKey, showApiKeyModal, capturedImage, isLoading, error,
                   carbData, rawResponse, storedKey, mounted, pickerOpen, requests,
                   nextReq, nextImage, carbFrom>>

\* A setView call of renderView and the render that follows it: the button
\* clicked and the view it sets.
SetView(op, to) ==
    /\ view' = Rendered(to, carbData, isLoading, error, activeTab)
    /\ lastOp' = Did(op, NoRequest, FALSE)
    /\ UNCHANGED <<activeTab, apiKey, showApiKeyModal, capturedImage, isLoading, isUploading,
                   error, carbData, rawResponse, storedKey, mounted, pickerOpen,
                   upload, requests, toast, nextReq, nextImage, carbFrom>>

\* The last-image button of the camera view (lines 428-436).
ShowLastImage ==
    /\ Interactive /\ view = "camera" /\ capturedImage # NoImage
    /\ SetView("showLastImage", "preview")

\* Settings opened from the camera view only: the variant that the property
\* of C15 has to tell from OpenSettings.
OpenSettingsFromCamera ==
    /\ Interactive
    /\ view = "camera"
    /\ SetView("openSettings", "settings")

\* The settings button of the camera view (lines 463-470) and the "Update
\* API Key" button of the preview's error overlay (line 509).
OpenSettings ==
    /\ Interactive
    /\ \/ view = "camera"
       \/ view = "preview" /\ PreviewPane = "error"
    /\ SetView("openSettings", "settings")

\* The X buttons of the preview, details and settings views.
Dismiss ==
    /\ Interactive /\ view \in {"preview", "details", "settings"}
    /\ SetView("dismiss", "camera")

\* The result card of the preview (line 514).
OpenDetails ==
    /\ Interactive /\ view = "preview" /\ PreviewPane = "result"
    /\ SetView("openDetails", "details")

\* A tab of the details view is chosen (lines 539-544) and shown.
SetActiveTab(tab) ==
    /\ Interactive /\ view = "details" /\ Truthy(carbData)
    /\ tab # activeTab
    /\ activeTab' = tab
    /\ view' = Rendered(view, carbData, isLoading, error, tab)
    /\ lastOp' = Did("setActiveTab", NoRequest, FALSE)
    /\ UNCHANGED <<apiKey, showApiKeyModal, capturedImage, isLoading, isUploading,
                   error, carbData, rawResponse, storedKey, mounted, pickerOpen,
                   upload, requests, toast, nextReq, nextImage, carbFrom>>

\* retryAnalysis (lines 378-382), from the Retry button of the error overlay.
RetryAnalysis ==
    /\ Interactive /\ view = "preview" /\ PreviewPane = "error"
    /\ IF capturedImage # NoImage
       THEN StartAnalysis(capturedImage, apiKey) /\ lastOp' = Did("retryAnalysis", nextReq, FALSE)
       ELSE /\ lastOp' = Did("retryAnalysis", NoRequest, FALSE)
            /\ UNCHANGED <<isLoading, error, rawResponse, requests, nextReq>>
    /\ UNCHANGED <<activeTab, view, apiKey, showApiKeyModal, capturedImage, isUploading,
                   carbData, storedKey, mounted, pickerOpen, upload, toast,
                   nextImage, carbFrom>>

\* The credential inputs of the settings view and of the dialog are shown.
KeyInputShown ==
    mounted /\ ~Crashed /\ ~pickerOpen /\ (showApiKeyModal \/ view = "settings")

\* onChange of a credential input (lines 687, 730).
EditApiKey(key) ==
    /\ KeyInputShown
    /\ key # apiKey
    /\ apiKey' = key
    /\ lastOp' = Did("editApiKey", NoRequest, FALSE)
    /\ UNCHANGED <<activeTab, view, showApiKeyModal, capturedImage, isLoading, isUploading,
                   error, carbData, rawResponse, storedKey, mounted, pickerOpen,
                   upload, requests, toast, nextReq, nextImage, carbFrom>>

\* saveApiKey (lines 63-67); both Save buttons are disabled while !apiKey.
SaveApiKey ==
    /\ KeyInputShown
    /\ apiKey # ""
    /\ storedKey' = apiKey
    /\ showApiKeyModal' = FALSE
    /\ lastOp' = Did("saveApiKey", NoRequest, FALSE)
    /\ UNCHANGED <<activeTab, view, apiKey, capturedImage, isLoading, isUploading, error,
                   carbData, rawResponse, mounted, pickerOpen, upload, requests,
                   toast, nextReq, nextImage, carbFrom>>

\* Cancel, or the dialog's onOpenChange(false) (lines 719, 739).
CloseModal ==
    /\ mounted /\ ~Crashed /\ ~pickerOpen /\ showApiKeyModal
    /\ showApiKeyModal' = FALSE
    /\ lastOp' = Did("closeModal", NoRequest, FALSE)
    /\ UNCHANGED <<activeTab, view, apiKey, capturedImage, isLoading, isUploading, error,
                   carbData, rawResponse, storedKey, mounted, pickerOpen, upload,
                   requests, toast, nextReq, nextImage, carbFrom>>

(***************************************************************************)
(* analyzeImage after its fetch settled                                    *)
(***************************************************************************)
\* The end of a round and the render that follows it; carbData and error are
\* what the round stored.
Settled(op, r) ==
    /\ ~Crashed
    /\ requests' = requests \ {r}
    /\ isLoading' = FALSE
    /\ view' = Rendered(view, carbData', FALSE, error', activeTab)
    /\ lastOp' = Did(op, r.id, r.alone)
    /\ UNCHANGED <<activeTab, apiKey, showApiKeyModal, capturedImage, isUploading,
                   storedKey, mounted, pickerOpen, upload, toast, nextReq,
                   nextImage>>

\* A handler that drops the response of a request that is not the one of the
\* captured image: the variant that the property of C12 has to tell from
\* ResponseOk.
ResponseOkIfCurrent(r, content) ==
    LET n == Normalized[content]
        current == r.image = capturedImage IN
    /\ r \in requests
    /\ rawResponse' = IF current THEN content ELSE rawResponse
    /\ carbData' = IF current /\ n.stored THEN n.record ELSE carbData
    /\ carbFrom' = IF current /\ n.stored
                   THEN [req |-> r.id, image |-> r.image, over |-> carbFrom.req]
                   ELSE carbFrom
    /\ error' = IF current /\ n.error # JNull THEN n.error ELSE error
    /\ Settled("responseOk", r)

\* A successful response with the given content (lines 322-368, 372-374).
ResponseOk(r, content) ==
    LET n == Normalized[content] IN
    /\ r \in requests
    /\ rawResponse' = content
    /\ carbData' = IF n.stored THEN n.record ELSE carbData
    /\ carbFrom' = IF n.stored
                   THEN [req |-> r.id, image |-> r.image, over |-> carbFrom.req]
                   ELSE carbFrom
    /\ error' = IF n.error # JNull THEN n.error ELSE error
    /\ Settled("responseOk", r)

\* A response with a non-success status (lines 309-320, 369-374).
ResponseError(r, resp) ==
    /\ r \in requests
    /\ error' = JStr(ApiErrorMessages[resp])
    /\ UNCHANGED <<carbData, rawResponse, carbFrom>>
    /\ Settled("responseError", r)

\* fetch rejected (lines 369-374).
FetchFailed(r) ==
    /\ r \in requests
    /\ error' = JStr(FetchFailedMessage)
    /\ UNCHANGED <<carbData, rawResponse, carbFrom>>
    /\ Settled("fetchFailed", r)

(***************************************************************************)
(* What still runs once the page is gone: the calls of handleFileSelect and *)
(* analyzeImage that were waiting.  Their state setters have no effect.     *)
(***************************************************************************)
\* handleFileSelect after compressImage settled (lines 107-125): resolved, it
\* calls analyzeImage, which sends its request; rejected, it calls toast.
UnmountedUpload(resolved) ==
    /\ Crashed /\ upload.active
    /\ IF resolved
       THEN /\ nextImage <= MaxImages /\ nextReq <= requestLimit
            /\ requests' = {[r EXCEPT !.alone = FALSE] : r \in requests}
                               \cup {[id |-> nextReq, image |-> nextImage,
                                      apiKey |-> upload.apiKey, alone |-> requests = {}]}
            /\ nextReq' = nextReq + 1
            /\ nextImage' = nextImage + 1
            /\ lastOp' = Did("unmounted", nextReq, FALSE)
            /\ UNCHANGED toast
       ELSE /\ toast' = "Error processing image"
            /\ lastOp' = Did("unmounted", NoRequest, FALSE)
            /\ UNCHANGED <<requests, nextReq, nextImage>>
    /\ upload' = NoUpload
    /\ UNCHANGED <<view, apiKey, showApiKeyModal, capturedImage, isLoading, isUploading,
                   error, carbData, rawResponse, activeTab, storedKey, mounted,
                   pickerOpen, carbFrom>>

\* analyzeImage after its fetch settled (lines 307-374).
UnmountedSettled(r) ==
    /\ Crashed /\ r \in requests
    /\ requests' = requests \ {r}
    /\ lastOp' = Did("unmounted", r.id, r.alone)
    /\ UNCHANGED <<view, apiKey, showApiKeyModal, capturedImage, isLoading, isUploading,
                   error, carbData, rawResponse, activeTab, storedKey, mounted,
                   pickerOpen, upload, toast, nextReq, nextImage, carbFrom>>

Next ==
    \/ Mount /\ UNCHANGED harnessVars
    \/ (\E shot \in BOOLEAN : CapturePhoto(shot)) /\ UNCHANGED harnessVars
    \/ HandleGalleryClick /\ UNCHANGED harnessVars
    \/ CancelPicker /\ UNCHANGED harnessVars
    \/ (\E file \in Files : HandleFileSelect(file)) /\ UNCHANGED harnessVars
    \/ CompressResolved /\ UNCHANGED harnessVars
    \/ CompressRejected /\ UNCHANGED harnessVars
    \/ ShowLastImage /\ UNCHANGED harnessVars
    \/ OpenSettings /\ UNCHANGED harnessVars
    \/ Dismiss /\ UNCHANGED harnessVars
    \/ OpenDetails /\ UNCHANGED harnessVars
    \/ (\E tab \in {"summary", "items"} : SetActiveTab(tab)) /\ UNCHANGED harnessVars
    \/ RetryAnalysis /\ UNCHANGED harnessVars
    \/ (\E key \in ApiKeys : EditApiKey(key)) /\ UNCHANGED harnessVars
    \/ SaveApiKey /\ UNCHANGED harnessVars
    \/ CloseModal /\ UNCHANGED harnessVars
    \/ (\E r \in requests, c \in OkContents : ResponseOk(r, c)) /\ UNCHANGED harnessVars
    \/ (\E r \in requests, e \in ErrorResponses : ResponseError(r, e))
           /\ UNCHANGED harnessVars
    \/ (\E r \in requests : FetchFailed(r)) /\ UNCHANGED harnessVars
    \/ (\E resolved \in BOOLEAN : UnmountedUpload(resolved)) /\ UNCHANGED harnessVars
    \/ (\E r \in requests : UnmountedSettled(r)) /\ UNCHANGED harnessVars

Spec == Init /\ [][Next]_vars

\* The page with room for one request more.
OverlapInit ==
    UIInit /\ requestLimit = MaxOverlapRequests /\ input = NoParts /\ output = NoOut

OverlapSpec == OverlapInit /\ [][Next]_vars

(***************************************************************************)
(* The normalizer on its own: response texts put together from parts, and  *)
(* the two functions applied to them.                                      *)
(***************************************************************************)
\* The most food items written into a text.
MaxItems == 2

\* "<n>g <word>" or "<n> grams of <word>"
UnitPhrase(n, long, word) ==
    n \o (IF long THEN " grams of " ELSE "g ") \o word

\* "<name>: <weight>g, <carbs>g [of] carbs", or with the units written out.
ItemPhrase(it, long) ==
    it.name \o ": " \o it.weight \o (IF long THEN " grams, " ELSE "g, ")
        \o it.carbs
        \o (IF long THEN " grams of carbohydrates"
            ELSE IF it.of THEN "g of carbs" ELSE "g carbs")

ItemPool ==
    { [name |-> "Chicken", weight |-> "150", carbs |-> "0", of |-> TRUE],
      [name |-> "Rice", weight |-> "200", carbs |-> "45", of |-> FALSE],
      [name |-> "Brown Rice", weight |-> "12345678901", carbs |-> "040", of |-> FALSE] }

ItemLists == UNION {[1..n -> ItemPool] : n \in 0..MaxItems}

RECURSIVE Join(_, _)
Join(strs, sep) ==
    IF Len(strs) = 0 THEN ""
    ELSE IF Len(strs) = 1 THEN strs[1]
    ELSE strs[1] \o sep \o Join(Tail(strs), sep)

\* The phrases of the quantities that are present, total first.
Phrases(total, fiber, sugar, starch, long) ==
    (IF total = Absent THEN <<>>
     ELSE <<UnitPhrase(total, long, IF long THEN "carbohydrates" ELSE "carbs")>>)
    \o (IF fiber = Absent THEN <<>> ELSE <<UnitPhrase(fiber, long, "fiber")>>)
    \o (IF sugar = Absent THEN <<>> ELSE <<UnitPhrase(sugar, long, "sugar")>>)
    \o (IF starch = Absent THEN <<>> ELSE <<UnitPhrase(starch, long, "starch")>>)

ProseText(lead, phrases, items, long, sep) ==
    lead \o Join(phrases, ", ")
        \o (IF Len(phrases) > 0 /\ Len(items) > 0 THEN ". " ELSE "")
        \o Join([i \in 1..Len(items) |-> ItemPhrase(items[i], long)], sep)

Leads == {"", "This meal has about "}

\* Between two items: a space, a comma, a line feed, a no-break space.
ItemSeparators == {" ", ", ", "\n", " "}

ProseInput(lead, total, fiber, sugar, starch, long, items, sep) ==
    [NoParts EXCEPT !.family = "prose", !.lead = lead,
                    !.content = ProseText(lead, Phrases(total, fiber, sugar, starch, long),
                                          items, long, sep),
                    !.total = total, !.fiber = fiber, !.sugar = sugar,
                    !.starch = starch, !.items = items]

\* Texts about the quantities, with at most one food item after them.
QuantityInputs ==
    { ProseInput(lead, total, fiber, sugar, starch, long, items, " ") :
        lead \in Leads, total \in {Absent, "42"}, fiber \in {Absent, "3"},
        sugar \in {Absent, "8"}, starch \in {Absent, "0"}, long \in BOOLEAN,
        items \in {l \in ItemLists : Len(l) <= 1} }

\* A quantity beyond 2^53, which no double is equal to.
BigQuantity == "9007199254740993"

\* Texts with quantities that a double cannot hold exactly, or that their
\* sum cannot.
BigQuantityInputs ==
    { ProseInput("", Absent, fiber, sugar, starch, FALSE, <<>>, " ") :
        fiber \in {BigQuantity, "9007199254740992"}, sugar \in {Absent, "7"},
        starch \in {Absent, "0"} }

\* Texts that list food items, with or without the total before them.
ItemInputs ==
    { ProseInput("", total, Absent, Absent, Absent, long, items, sep) :
        total \in {Absent, "42"}, long \in BOOLEAN,
        items \in {l \in ItemLists : Len(l) >= 1}, sep \in ItemSeparators }

ProseInputs == QuantityInputs \cup BigQuantityInputs \cup ItemInputs

RecordWithoutItemsText ==
    "{\"totalCarbs\": 20, \"breakdown\": {\"fiber\": 1, \"sugar\": 2, \"starch\": 17}}"

\* A record with numbers written with a fraction and an exponent, an escaped
\* character, and foodItems that are the number zero.
EscapedRecordText ==
    "{\"totalCarbs\": 2.05e1, \"breakdown\": {\"fiber\": 1.50, \"sugar\": 2, "
        \o "\"starch\": 17}, \"note\": \"caf\\u00e9 au lait\", \"foodItems\": 0.0}"

EmbeddedBodies == {FullRecordText, RecordWithoutItemsText, EscapedRecordText}

\* Before the object: nothing, JSON white space, a vertical tab (white space
\* to a regular expression but not to JSON.parse), prose, prose with a
\* brace, and a bracket.
Prefixes == {"", "\n ", "", "Here you go: ", "Format {see below}: ", "["}

Suffixes == {"", "\n", " Thanks!", " Enjoy :}", " {more", "]"}

EmbeddedInputs ==
    { [NoParts EXCEPT !.family = "embedded", !.content = prefix \o body \o suffix,
                      !.prefix = prefix, !.body = body, !.suffix = suffix] :
        prefix \in Prefixes, body \in EmbeddedBodies, suffix \in Suffixes }

NormalizerInit ==
    /\ UIInit
    /\ storedKey = ""
    /\ requestLimit = MaxRequests
    /\ input \in ProseInputs \cup EmbeddedInputs
    /\ output = NoOut

\* generateEstimatedCarbData applied to the text.
Estimate ==
    /\ output.via = "none"
    /\ output' = [via |-> "generateEstimatedCarbData", stored |-> TRUE,
                  record |-> generateEstimatedCarbData(input.content), error |-> JNull]
    /\ UNCHANGED <<requestLimit, input, uiVars>>

\* The normalization of analyzeImage applied to the text.
Normalize ==
    /\ output.via = "none"
    /\ output' = NormalizeContent(JStr(input.content))
    /\ UNCHANGED <<requestLimit, input, uiVars>>

NormalizerNext == Estimate \/ Normalize

NormalizerSpec == NormalizerInit /\ [][NormalizerNext]_vars

(***************************************************************************)
(* Properties of the page (specification Spec)                             *)
(***************************************************************************)
\* The record of a parsed value as a round stores it.
RecordHasFoodItems(x) ==
    \/ x.kind = "obj" /\ "foodItems" \in DOMAIN x.props
    \/ x.kind = "arr+foodItems"

\* C1: a capturePhoto or a handleGalleryClick that runs while the credential
\* is missing opens the credential dialog, issues no request, leaves the view
\* and the captured image as they are and does not open the file chooser; and
\* no file is ever chosen or compressed for a missing credential, so that no
\* handleFileSelect runs without one.
C1_MissingKeyOpensPrompt ==
    [][ /\ (lastOp'.op \in {"capturePhoto", "handleGalleryClick"} /\ apiKey = "")
           => /\ showApiKeyModal'
              /\ requests' = requests
              /\ nextReq' = nextReq
              /\ view' = view
              /\ capturedImage' = capturedImage
              /\ ~pickerOpen'
        /\ pickerOpen' => apiKey' # ""
        /\ upload'.active => upload'.apiKey # "" ]_vars

\* A capture without a credential has run and the dialog is open.
C1_Witness ==
    /\ lastOp.op = "capturePhoto"
    /\ apiKey = ""
    /\ showApiKeyModal
    /\ requests = {}
    /\ view = "camera"
    /\ capturedImage = NoImage

\* C2 as stated: when a successful response has been handled, the record of
\* that response is the current record, it has foodItems, and the preview is
\* not the error overlay.  The content null of a message without content
\* refutes it: both JSON.parse(null).foodItems and null.match throw, and the
\* round ends with an error and without a record.
C2_SuccessStoresRecord ==
    lastOp.op = "responseOk"
        => /\ carbFrom.req = lastOp.req
           /\ RecordHasFoodItems(carbData)
           /\ ~(Truthy(error) /\ ~Truthy(carbData))

\* For a content: the outcome of the direct attempt, the outcome of the
\* attempt on the matched span, and the heuristic estimate.
AttemptsOn(content) ==
    [direct |-> ParseAttempt(ContentText(content)),
     embedded |-> IF content.kind = "str" /\ jsonMatch(content.str).found
                  THEN ParseAttempt(jsonMatch(content.str).matched)
                  ELSE [ok |-> FALSE, val |-> JNull],
     estimate |-> IF content.kind = "str" THEN generateEstimatedCarbData(content.str)
                  ELSE JNull]

\* AttemptsOn for each content in OkContents, computed once.
RECURSIVE AttemptsOf(_)
AttemptsOf(contents) ==
    IF contents = {} THEN <<>>
    ELSE LET content == CHOOSE x \in contents : TRUE
         IN (content :> AttemptsOn(content)) @@ AttemptsOf(contents \ {content})

Attempts == AttemptsOf(OkContents)

\* The attempts on the content of the last response.
DirectAttempt == Attempts[rawResponse].direct

EmbeddedAttempt == Attempts[rawResponse].embedded

RecordIsEstimate ==
    /\ rawResponse.kind = "str"
    /\ carbData = Attempts[rawResponse].estimate

\* C3: when a round that ran with no other round in flight has handled a
\* successful response, the warning is the error exactly when the direct
\* attempt and the attempt on the embedded object both failed and the record
\* is the heuristic estimate of the content; when the direct attempt
\* succeeded the record is its value, otherwise when the embedded attempt
\* succeeded the record is that one's value, and in both cases error is null.
C3_WarningIffEstimated ==
    (lastOp.op = "responseOk" /\ lastOp.alone)
        => /\ (error = JStr(EstimateWarning))
                 <=> (~DirectAttempt.ok /\ ~EmbeddedAttempt.ok /\ RecordIsEstimate)
           /\ DirectAttempt.ok => (carbData = DirectAttempt.val /\ error = JNull)
           /\ (~DirectAttempt.ok /\ EmbeddedAttempt.ok)
                 => (carbData = EmbeddedAttempt.val /\ error = JNull)

\* A round that ran alone ended with the estimate and the warning.
C3_Witness ==
    /\ lastOp.op = "responseOk"
    /\ lastOp.alone
    /\ rawResponse = JStr("About 42g of carbs.")
    /\ error = JStr(EstimateWarning)
    /\ RecordIsEstimate

\* C4 as stated: the current record, when there is one, was produced from the
\* response for the image that is the captured image.  analyzeImage never
\* clears carbData, so that the record of the previous image stays the current
\* record while and after the round of the next image runs.
C4_RecordIsOfCapturedImage ==
    carbData # JNull => carbFrom.image = capturedImage

\* C9: a handleFileSelect that is given a file that is no image changes
\* neither the view, the captured image, the record, the error nor the raw
\* response, issues no request, and leaves isUploading false with no upload
\* in progress.
C9_InvalidFileChangesNothing ==
    [][ (lastOp'.op = "handleFileSelect" /\ ~IsImageType(lastOp'.file))
            => /\ view' = view
               /\ capturedImage' = capturedImage
               /\ carbData' = carbData
               /\ error' = error
               /\ rawResponse' = rawResponse
               /\ requests' = requests
               /\ nextReq' = nextReq
               /\ isLoading' = isLoading
               /\ ~isUploading'
               /\ ~upload'.active ]_vars

\* A file that is no image has been selected and reported.
C9_Witness ==
    /\ lastOp.op = "handleFileSelect"
    /\ lastOp.file = "application/pdf"
    /\ toast = "Invalid file type"
    /\ ~isUploading
    /\ ~pickerOpen

\* C10 as stated: when a response with a non-success status has been handled,
\* the preview renders the error overlay, the one with the Retry and Update
\* API Key buttons.  The overlay is rendered for error && !carbData only, and
\* the record of an earlier round is never cleared: with one, the preview
\* renders the result card instead.
C10_ServiceErrorShowsOverlay ==
    lastOp.op = "responseError" => PreviewPane = "error"

(***************************************************************************)
(* Properties of the normalizer (specification NormalizerSpec)             *)
(***************************************************************************)
\* The record that parsing the embedded object alone gives, foodItems
\* backfilled.
BodyRecord == ParseAttempt(input.body).val

\* Normalize has run on a text with an embedded object.
EmbeddedNormalized ==
    input.family = "embedded" /\ output.via \in {"direct", "embedded", "estimated", "threw"}

\* C5 as stated: for every text with an object embedded in prose, the
\* normalization stores the record that parsing the object alone gives.
\* Prose with a "{" before the object or a "}" after it widens the matched
\* span and the text falls to the estimate; "[" and "]" around the object
\* make the whole text JSON, and the direct attempt stores the array.
C5_EmbeddedEqualsAlone ==
    EmbeddedNormalized => (output.stored /\ output.record = BodyRecord)

HasChar(s, c) == \E k \in 1..Len(s) : Ch(s, k) = c

\* C5, amended: the same, for the texts that have no "{" before the object
\* and no "}" after it and that are not JSON as a whole, unless all that is
\* around the object is white space; no warning is set.
C5_EmbeddedEqualsAloneUnlessBraces ==
    ( /\ EmbeddedNormalized
      /\ ~HasChar(input.prefix, "{")
      /\ ~HasChar(input.suffix, "}")
      /\ \/ ~JSONParse(input.content).ok
         \/ Trim(input.prefix) = "" /\ Trim(input.suffix) = "" )
        => /\ output.stored
           /\ output.record = BodyRecord
           /\ output.error = JNull

\* An object between two pieces of prose was parsed from the matched span.
C5_Witness ==
    /\ input.family = "embedded"
    /\ input.prefix = "Here you go: "
    /\ input.suffix = " Thanks!"
    /\ input.body = RecordWithoutItemsText
    /\ output.via = "embedded"
    /\ output.record = BodyRecord
    /\ output.record.props.foodItems = JArr(<<>>)

\* Estimate has run on a text of phrases.
EstimateRan == input.family = "prose" /\ output.via = "generateEstimatedCarbData"

\* The text has no phrase of the total: neither the total nor a food item,
\* whose carbs read as one, is written into it.
NoTotalPhrase == input.total = Absent /\ input.items = <<>>

SomeComponentPhrase ==
    input.fiber # Absent \/ input.sugar # Absent \/ input.starch # Absent

\* The number that the digits q of a text are: those of the texts built
\* here have at most 11 digits, but for the one beyond 2^53, which is read
\* as the even one of the two integers next to it.
AsRead(q) ==
    CASE q = BigQuantity -> JReal("9007199254740992")
      [] Len(StripLeadingZeros(q)) > 9 -> JReal(StripLeadingZeros(q))
      [] OTHER -> JNum(IntOfDigits(q))

OrElse(q, default) == IF q = Absent THEN JNum(default) ELSE AsRead(q)

RecordTotals(r) ==
    [totalCarbs |-> r.props.totalCarbs,
     fiber |-> r.props.breakdown.props.fiber,
     sugar |-> r.props.breakdown.props.sugar,
     starch |-> r.props.breakdown.props.starch]

\* C6 as stated: without a phrase of the total and with one of a component,
\* each component that is not found is 0 and totalCarbs is the sum of those
\* found.  The components that are not found keep 5, 10 and 15, and the sum
\* counts them.
C6_TotalIsSumOfFound ==
    (EstimateRan /\ NoTotalPhrase /\ SomeComponentPhrase)
        => RecordTotals(output.record) =
               [totalCarbs |-> Plus(Plus(OrElse(input.fiber, 0), OrElse(input.sugar, 0)),
                                    OrElse(input.starch, 0)),
                fiber |-> OrElse(input.fiber, 0),
                sugar |-> OrElse(input.sugar, 0),
                starch |-> OrElse(input.starch, 0)]

\* C6, amended: without a phrase of the total and with one of a component,
\* each component that is found is the number of its phrase, each one that is
\* not found keeps its default (fiber 5, sugar 10, starch 15), and totalCarbs
\* is the sum of the three components of the record.
C6_TotalIsSumWithDefaults ==
    (EstimateRan /\ NoTotalPhrase /\ SomeComponentPhrase)
        => RecordTotals(output.record) =
               [totalCarbs |-> Plus(Plus(OrElse(input.fiber, DefaultFiber),
                                         OrElse(input.sugar, DefaultSugar)),
                                    OrElse(input.starch, DefaultStarch)),
                fiber |-> OrElse(input.fiber, DefaultFiber),
                sugar |-> OrElse(input.sugar, DefaultSugar),
                starch |-> OrElse(input.starch, DefaultStarch)]

\* Fiber and sugar were found and starch was not: starch is its default and
\* the total counts it.
C6_Witness ==
    /\ EstimateRan
    /\ NoTotalPhrase
    /\ input.fiber # Absent /\ input.sugar # Absent /\ input.starch = Absent
    /\ RecordTotals(output.record).starch = JNum(DefaultStarch)
    /\ RecordTotals(output.record).totalCarbs =
           Plus(Plus(AsRead(input.fiber), AsRead(input.sugar)), JNum(DefaultStarch))

\* C7 as stated: when no food item is found, the only item of the record is
\* "Unknown food item" with weight 100, confidence low and the record's
\* totalCarbs as its carbs.  The item keeps carbs 30 whatever total is
\* recovered.
C7_DefaultItemCarriesTotal ==
    (EstimateRan /\ input.items = <<>>)
        => output.record.props.foodItems.items =
               <<FoodItem("Unknown food item", JNum(DefaultItemWeight),
                          RecordTotals(output.record).totalCarbs, "low")>>

\* The name that foodItemRegex reads for the i-th item of the text: the run
\* of words up to the colon, which takes in the lead when nothing but the
\* lead is written before the first item.
NameAsRead(i) ==
    IF i = 1 /\ input.total = Absent /\ ~SomeComponentPhrase
    THEN input.lead \o input.items[i].name
    ELSE input.items[i].name

\* C8: the items of the record are the items written into the text, one for
\* each, in the order of the text, each with the name, weight and carbs of its
\* phrase and confidence low; the default item is not among them.
C8_ItemsInOrder ==
    (EstimateRan /\ Len(input.items) > 0)
        => output.record.props.foodItems.items =
               [i \in 1..Len(input.items) |->
                    FoodItem(NameAsRead(i), AsRead(input.items[i].weight),
                             AsRead(input.items[i].carbs), "low")]

\* Two different items were read from a text, in its order.
C8_Witness ==
    /\ EstimateRan
    /\ Len(input.items) = 2
    /\ input.items[1].name = "Chicken"
    /\ input.items[2].name = "Rice"
    /\ output.record.props.foodItems.items =
           <<FoodItem("Chicken", JNum(150), JNum(0), "low"),
             FoodItem("Rice", JNum(200), JNum(45), "low")>>

(***************************************************************************)
(* Properties of the page (specification Spec): rounds and views           *)
(***************************************************************************)
\* The requests in flight for the captured image.
InFlightForCapture == {r \in requests : r.image = capturedImage}

\* C11 as stated: at most one request is in flight for the captured image.
\* While the request of the captured image is in flight, the failure of the
\* request of an earlier image sets isLoading to false and error, the preview
\* renders the error overlay, and its Retry button issues a second request
\* for the captured image.
C11_OneRequestPerCapture ==
    Cardinality(InFlightForCapture) <= 1

\* C12: a successful response with a text is stored whichever request it
\* answers: when it has been handled, the record is the one of that request
\* and the raw response is a content of the service, also when the captured
\* image is a later one and its own request has settled already.
C12_ResponseStoredForAnyRequest ==
    (lastOp.op = "responseOk" /\ rawResponse.kind = "str")
        => /\ carbFrom.req = lastOp.req
           /\ rawResponse \in OkContents
           /\ carbData = Normalized[rawResponse].record

\* Request 1, of image 1, settled after request 2, of image 2, which had
\* stored its record: the record, the warning and the raw response are now
\* those of request 1, while image 2 is the captured image.
C12_Witness ==
    /\ lastOp.op = "responseOk"
    /\ lastOp.req = 1
    /\ requests = {}
    /\ capturedImage = 2
    /\ carbFrom.req = 1 /\ carbFrom.image = 1
    /\ carbFrom.over = 2
    /\ rawResponse = JStr("About 42g of carbs.")
    /\ carbData = generateEstimatedCarbData("About 42g of carbs.")
    /\ error = JStr(EstimateWarning)

\* C13 as stated: while a request is in flight isLoading is true and the
\* preview renders the loading indicator.  The finally block of the call that
\* settles first sets isLoading to false while the request of another call is
\* still in flight.
C13_LoadingWhileInFlight ==
    requests # {} => (isLoading /\ PreviewPane = "loading")

\* A step that starts a round for a new image, which becomes the captured
\* image.
StartsRoundForNewImage ==
    /\ capturedImage' = nextImage
    /\ nextImage' = nextImage + 1
    /\ \E r \in requests' \ requests :
           r.image = capturedImage' /\ r.id = lastOp'.req
    /\ isLoading'

\* C14 as stated: a step from the camera view to the preview is a capture or
\* the end of an upload, and it starts a round for the new image.  The
\* last-image button of the camera view shows the preview of the image
\* captured before and starts nothing.
C14_PreviewOnlyByCapture ==
    [][ (view = "camera" /\ view' = "preview")
            => /\ lastOp'.op \in {"capturePhoto", "compressResolved"}
               /\ StartsRoundForNewImage ]_vars

\* C14, amended: a step from the camera view to the preview is a capture or
\* the end of an upload, which starts a round for the new image, or a click
\* on the last-image button, which needs a captured image, keeps it and
\* issues no request.
C14_PreviewByCaptureOrLastImage ==
    [][ (view = "camera" /\ view' = "preview")
            => \/ /\ lastOp'.op \in {"capturePhoto", "compressResolved"}
                  /\ StartsRoundForNewImage
               \/ /\ lastOp'.op = "showLastImage"
                  /\ capturedImage # NoImage
                  /\ capturedImage' = capturedImage
                  /\ requests' = requests
                  /\ nextReq' = nextReq
                  /\ isLoading' = isLoading ]_vars

\* The last-image button has shown the preview while no round was running.
C14_Witness ==
    /\ lastOp.op = "showLastImage"
    /\ view = "preview"
    /\ capturedImage # NoImage
    /\ requests = {}
    /\ ~isLoading

\* A button that sets the view to settings is rendered and takes clicks: the
\* settings button of the camera view, or Update API Key of the preview's
\* error overlay.
SettingsButtonShown ==
    /\ mounted /\ ~showApiKeyModal /\ ~pickerOpen
    /\ \/ view = "camera"
       \/ view = "preview" /\ ~isLoading /\ Truthy(error) /\ ~Truthy(carbData)

\* C15 as stated: with the page taking clicks, opening settings is enabled in
\* the camera, preview and details views alike.  The details view has the X
\* button only, and the preview has Update API Key on its error overlay only.
C15_SettingsFromAnyView ==
    (Interactive /\ view \in {"camera", "preview", "details"}) => ENABLED OpenSettings

\* C15, amended: opening settings is enabled exactly in the camera view and
\* in the preview that renders the error overlay, the page taking clicks; it
\* is not enabled in the details view nor in any other preview; when taken
\* it leads to view = settings, and dismissing settings leads to view =
\* camera.
C15_SettingsFromCameraOrOverlay ==
    /\ [](SettingsButtonShown <=> ENABLED OpenSettings)
    /\ []((Interactive /\ view = "settings") => ENABLED Dismiss)
    /\ [][ /\ lastOp'.op = "openSettings" => view' = "settings"
           /\ (lastOp'.op = "dismiss" /\ view = "settings") => view' = "camera" ]_vars

\* Settings were opened from the error overlay of the preview or from the
\* camera view after a failed round.
C15_Witness ==
    /\ lastOp.op = "openSettings"
    /\ view = "settings"
    /\ Truthy(error)
    /\ ~Truthy(carbData)
    /\ capturedImage # NoImage

\* C16 as stated: every request in flight carries a non-empty credential.
\* retryAnalysis calls analyzeImage without looking at apiKey, and the
\* credential input of the settings view writes apiKey on every change: after
\* a failed round the key can be emptied there, and Retry, reached again by
\* the last-image button, sends the request with the empty key.
C16_NoRequestWithoutKey ==
    \A r \in requests : r.apiKey # ""
=============================================================================
